---- MODULE Spec2Model ----
(***************************************************************************)
(* Incremental conversion-and-captioning pipeline                           *)
(* (reference/converter_runner.py, reference/markdown_rewriter.py).         *)
(*                                                                         *)
(* Eight state machines share the variables below:                         *)
(*   Spec         one or two consecutive runs of run_conversion_pipeline    *)
(*                over a prior artifact state drawn by Init;                *)
(*   SpecConvert  one direct call of _convert_to_pdf;                       *)
(*   SpecRewrite  consecutive passes of rewrite_markdown_with_captions      *)
(*                over one caption cache file;                              *)
(*   SpecText     one call of rewrite_markdown_with_captions on the         *)
(*                characters of one markdown file;                          *)
(*   SpecMeta     the metadata of fresh and of recovered chunk records;     *)
(*   SpecDiscover the discovery of the sources of an input tree;            *)
(*   SpecCaption  the captions of the tags of one document;                 *)
(*   SpecRace     two overlapping rewrite passes over one cache file.       *)
(*                                                                         *)
(* Modification times are naturals, 0 standing for "the file is missing".   *)
(* A chunk identity chnk_<hash>_<n> is the record [h |-> hash, n |-> n].    *)
(***************************************************************************)
EXTENDS Integers, Sequences, FiniteSets, TLC

\* ------------------------------------------------------------------ bounds
MaxT0 == 2
MaxChunks == 2
MaxRuns == 2
MaxCpus == 2
PipelineAttempts == 2
MaxOpt == 4
MaxTags == 2
MaxPasses == 2
MaxParts == 4

\* ------------------------------------------------------- program constants
DEFAULT_CONVERSION_ATTEMPTS == 3

\* Identity hashes of the two source locations of the input tree, in the
\* sorted order of their paths: 1 is a.pdf, 2 is b.docx.
Hashes == {1, 2}

ExtOf(h) == IF h = 1 THEN ".pdf" ELSE ".docx"

\* The extensions the model tells apart: ".txt" stands for every extension
\* outside RETRY_ELIGIBLE_EXTENSIONS other than ".pdf".
RETRY_ELIGIBLE_EXTENSIONS == {".docx", ".png"}

Exts == {".pdf", ".docx", ".txt"}

ChunkIds == [h : Hashes, n : 0 .. MaxChunks - 1]

Cid(h, n) == [h |-> h, n |-> n]

\* A record of the prior manifest: the chunk identity and the source_hash
\* it is filed under.
Rec(h, n, k) == [id |-> Cid(h, n), key |-> k]

VARIABLES
    mode,       \* which machine runs: "pipeline", "convert", "rewrite", ...
    disk,       \* modification time of every artifact (0: missing)
    now,        \* the clock
    prior,      \* CHUNKS.jsonl: the persisted prior manifest
    options,    \* extra_options["max_conversion_attempts"]
    chunking,   \* config.enable_chunking
    pc,         \* position of the running call
    run,        \* number of the pipeline run
    idx,        \* position of the per-source loop / of the sequential chunk loop
    uploads,    \* discovered sources
    ecm,        \* existing_chunk_map
    chunks,     \* chunks
    seen,       \* seen_chunk_ids
    errors,     \* errors
    prepared,   \* prepared_lookup
    futures,    \* future_map: state and result of every submitted unit
    manifest,   \* the CorpusManifest returned
    cv,         \* locals of _convert_to_pdf
    work,       \* history: collaborator invocations of the current run
    disk0,      \* history: the disk when the current run started
    dec,        \* history: what the per-source loop decided and saw
    offered,    \* history: chunk records offered to the manifest, in order
    units,      \* history: chunking units executed in the current run
    pool,       \* the executor's max_workers, and the concurrency it was cut from
    manifest1,  \* history: the manifest of the previous run
    img,        \* content of every image file (0: missing)
    cache,      \* media_captions.json
    rw,         \* arguments, locals and results of the rewrite pass
    sent        \* history: every ImageCaptionRequest put to the service

pipeVars == <<prior, chunking, run, idx, uploads, ecm, chunks, seen, errors,
              prepared, futures, manifest>>
histVars == <<work, disk0, pool, dec, offered, units, manifest1>>
rwVars == <<img, cache, rw, sent>>
vars == <<mode, disk, now, options, pc, cv, pipeVars, histVars, rwVars>>

\* ------------------------------------------------------------ sequences
Range(s) == {s[i] : i \in 1 .. Len(s)}

RECURSIVE SortedSeq(_)
SortedSeq(S) ==
    IF S = {} THEN <<>>
    ELSE LET m == CHOOSE x \in S : \A y \in S : x <= y
         IN <<m>> \o SortedSeq(S \ {m})

Min(a, b) == IF a < b THEN a ELSE b
Max(a, b) == IF a > b THEN a ELSE b

\* ------------------------------------------------------------ the disk
NoFiles == [src   |-> [h \in Hashes |-> 0],
            copy  |-> [h \in Hashes |-> 0],
            pdf   |-> [h \in Hashes |-> 0],
            md    |-> [h \in Hashes |-> 0],
            chunk |-> [c \in ChunkIds |-> 0],
            alt   |-> [c \in ChunkIds |-> 0]]

\* chunk.markdown_path.exists() / .stat().st_mtime of a loaded ChunkRecord
RecMtime(d, r) == d[r.loc][r.id]
RecExists(d, r) == RecMtime(d, r) > 0

\* _iter_source_files and _deduplicate_paths over the modelled input tree:
\* the eligible files, sorted.
Discover(d) == SortedSeq({h \in Hashes : d.src[h] > 0})

\* _copy_original: shutil.copy2 keeps the source's modification time.
CopyOriginal(d, h) ==
    IF d.copy[h] = 0 \/ d.src[h] > d.copy[h]
    THEN [d EXCEPT !.copy[h] = d.src[h]]
    ELSE d

\* _load_existing_chunk_map: a record whose chunk file is in neither
\* chunk_markdown/ nor CHUNKS_TEXTS/ is dropped.
Locate(d, id) ==
    IF d.chunk[id] > 0 THEN "chunk"
    ELSE IF d.alt[id] > 0 THEN "alt" ELSE "none"

LoadRecord(d, r) == [id |-> r.id, key |-> r.key, loc |-> Locate(d, r.id)]

RECURSIVE MapLoad(_, _)
MapLoad(d, s) ==
    IF s = <<>> THEN <<>>
    ELSE <<LoadRecord(d, Head(s))>> \o MapLoad(d, Tail(s))

Loadable(d, p) == SelectSeq(p, LAMBDA r : Locate(d, r.id) # "none")

LoadExistingChunkMap(p, d) ==
    [k \in Hashes |->
        MapLoad(d, SelectSeq(Loadable(d, p), LAMBDA r : r.key = k))]

\* Keys of the chunk map in dict order: by first appearance in the file.
RECURSIVE KeyOrder(_, _)
KeyOrder(p, acc) ==
    IF p = <<>> THEN acc
    ELSE KeyOrder(Tail(p),
                  IF Head(p).key \in Range(acc) THEN acc
                  ELSE Append(acc, Head(p).key))

\* _chunks_match_hash: every chunk_id starts with chnk_<source_hash>_
ChunksMatchHash(existing, h) == \A i \in 1 .. Len(existing) : existing[i].id.h = h

\* Mutant of RemoveChunkArtifacts: only chunk_markdown/<id>.md is unlinked.
RemoveChunkDirOnly(d, existing) ==
    LET ids == {existing[i].id : i \in 1 .. Len(existing)}
    IN [d EXCEPT !.chunk = [c \in ChunkIds |-> IF c \in ids THEN 0 ELSE d.chunk[c]]]

\* _remove_chunk_artifacts: unlink markdown_path and CHUNKS_TEXTS/<id>.md
RemoveChunkArtifacts(d, existing) ==
    LET ids == {existing[i].id : i \in 1 .. Len(existing)}
        atChunk == {existing[i].id : i \in {j \in 1 .. Len(existing) : existing[j].loc = "chunk"}}
    IN [d EXCEPT !.chunk = [c \in ChunkIds |-> IF c \in atChunk THEN 0 ELSE d.chunk[c]],
                 !.alt   = [c \in ChunkIds |-> IF c \in ids THEN 0 ELSE d.alt[c]]]

\* Mutant of ShouldSkipReprocessing: an artifact as old as the one it is
\* made from is stale.
ShouldSkipReprocessingStrict(d, h, existing) ==
    IF existing = <<>> THEN FALSE
    ELSE IF d.copy[h] = 0 THEN FALSE
    ELSE IF d.pdf[h] = 0 \/ d.pdf[h] <= d.copy[h] THEN FALSE
    ELSE IF d.md[h] = 0 \/ d.md[h] <= d.pdf[h] THEN FALSE
    ELSE \A i \in 1 .. Len(existing) :
            /\ RecExists(d, existing[i])
            /\ ~(RecMtime(d, existing[i]) <= d.md[h])

\* _should_skip_reprocessing
ShouldSkipReprocessing(d, h, existing) ==
    IF existing = <<>> THEN FALSE
    ELSE IF d.copy[h] = 0 THEN FALSE
    ELSE IF d.pdf[h] = 0 \/ d.pdf[h] < d.copy[h] THEN FALSE
    ELSE IF d.md[h] = 0 \/ d.md[h] < d.pdf[h] THEN FALSE
    ELSE \A i \in 1 .. Len(existing) :
            /\ RecExists(d, existing[i])
            /\ ~(RecMtime(d, existing[i]) < d.md[h])

\* _artifacts_up_to_date
ArtifactsUpToDate(d, h) ==
    IF d.copy[h] = 0 THEN FALSE
    ELSE IF d.pdf[h] = 0 THEN FALSE
    ELSE IF d.pdf[h] < d.copy[h] THEN FALSE
    ELSE IF d.md[h] = 0 THEN FALSE
    ELSE d.md[h] >= d.pdf[h]

\* Mutant of AppendUnseen: the test "chunk_id not in seen_chunk_ids" is lost.
RECURSIVE AppendUnseenNoCheck(_, _, _)
AppendUnseenNoCheck(d, acc, s) ==
    IF s = <<>> THEN acc
    ELSE LET r == Head(s)
         IN AppendUnseenNoCheck(d,
                IF RecExists(d, r)
                THEN [chunks  |-> Append(acc.chunks, r),
                      seen    |-> acc.seen \cup {r.id},
                      offered |-> Append(acc.offered, r)]
                ELSE acc,
                Tail(s))

\* The loops "if exists and chunk_id not in seen: append; add" of
\* run_conversion_pipeline (lines 175-178 and 287-292) over a list of
\* records; acc holds chunks, seen_chunk_ids and the history of offers.
RECURSIVE AppendUnseen(_, _, _)
AppendUnseen(d, acc, s) ==
    IF s = <<>> THEN acc
    ELSE LET r == Head(s)
         IN AppendUnseen(d,
                IF RecExists(d, r) /\ r.id \notin acc.seen
                THEN [chunks  |-> Append(acc.chunks, r),
                      seen    |-> acc.seen \cup {r.id},
                      offered |-> Append(acc.offered, r)]
                ELSE [acc EXCEPT !.offered =
                        IF RecExists(d, r) THEN Append(@, r) ELSE @],
                Tail(s))

\* Mutant of AppendLeftover: the test markdown_path.exists() is lost.
RECURSIVE AppendLeftoverNoExists(_, _, _)
AppendLeftoverNoExists(d, acc, s) ==
    IF s = <<>> THEN acc
    ELSE LET r == Head(s)
         IN AppendLeftoverNoExists(d,
                IF r.id \in acc.seen
                THEN acc
                ELSE [chunks  |-> Append(acc.chunks, r),
                      seen    |-> acc.seen \cup {r.id},
                      offered |-> Append(acc.offered, r)],
                Tail(s))

\* The leftover loop (lines 286-292): it tests seen before exists.
RECURSIVE AppendLeftover(_, _, _)
AppendLeftover(d, acc, s) ==
    IF s = <<>> THEN acc
    ELSE LET r == Head(s)
         IN AppendLeftover(d,
                IF r.id \in acc.seen
                THEN [acc EXCEPT !.offered =
                        IF RecExists(d, r) THEN Append(@, r) ELSE @]
                ELSE IF RecExists(d, r)
                THEN [chunks  |-> Append(acc.chunks, r),
                      seen    |-> acc.seen \cup {r.id},
                      offered |-> Append(acc.offered, r)]
                ELSE acc,
                Tail(s))

\* Mutant of LeftoverAll: no leftover record is carried over.
LeftoverNone(d, acc, map, keys) == acc

RECURSIVE LeftoverAll(_, _, _, _)
LeftoverAll(d, acc, map, keys) ==
    IF keys = <<>> THEN acc
    ELSE LeftoverAll(d, AppendLeftover(d, acc, map[Head(keys)]), map, Tail(keys))

\* History only: the records the leftover loop appends from the list of
\* key k.
RECURSIVE KeptFor(_, _, _, _, _)
KeptFor(d, acc, map, keys, k) ==
    IF keys = <<>> THEN <<>>
    ELSE LET a2 == AppendLeftover(d, acc, map[Head(keys)])
         IN IF Head(keys) = k
            THEN SubSeq(a2.chunks, Len(acc.chunks) + 1, Len(a2.chunks))
            ELSE KeptFor(d, a2, map, Tail(keys), k)

\* chunk_markdown, the chunker, is not among the source files: after the
\* spec (section 3 and 4.6) it yields suffixes <prefix>_<sequence>, so the
\* i-th chunk of the source with hash h is chnk_<h>_<i>; it adds no
\* source_hash of its own to the metadata.
ChunkerIds(h, n) == [i \in 1 .. n |-> Cid(h, i - 1)]

\* What the chunker does in one call: it yields n chunks and then ends
\* (ok) or raises after them.
ChunkOutcomes ==
    {[n |-> n, ok |-> TRUE] : n \in 0 .. MaxChunks}
        \cup {[n |-> n, ok |-> FALSE] : n \in 0 .. MaxChunks - 1}

\* Mutant of ChunkPreparedSource: the records are made, no file is written.
ChunkPreparedSourceUnwritten(d, h, o, t) ==
    [disk |-> d,
     recs |-> [i \in 1 .. o.n |-> [id |-> ChunkerIds(h, o.n)[i], key |-> h, loc |-> "chunk"]],
     ok   |-> o.ok /\ o.n > 0]

\* Mutant of ChunkPreparedSource: a unit without a chunk is no error.
ChunkPreparedSourceAllowEmpty(d, h, o, t) ==
    [disk |-> [d EXCEPT !.chunk =
                 [c \in ChunkIds |-> IF c \in Range(ChunkerIds(h, o.n)) THEN t
                                     ELSE d.chunk[c]]],
     recs |-> [i \in 1 .. o.n |-> [id |-> ChunkerIds(h, o.n)[i], key |-> h, loc |-> "chunk"]],
     ok   |-> o.ok]

\* _chunk_prepared_source at time t: every yielded chunk is written to
\* chunk_markdown/<chunk_id>.md; no chunk at all is an error.
ChunkPreparedSource(d, h, o, t) ==
    LET ids == ChunkerIds(h, o.n)
    IN [disk |-> [d EXCEPT !.chunk =
                    [c \in ChunkIds |-> IF c \in Range(ids) THEN t ELSE d.chunk[c]]],
        recs |-> [i \in 1 .. o.n |-> [id |-> ids[i], key |-> h, loc |-> "chunk"]],
        ok   |-> o.ok /\ o.n > 0]

\* History only: the first link of the chain copy -> PDF -> markdown ->
\* chunks that is not fresh when the loop decides about source h.
FirstFailingLink(d, h, existing) ==
    IF d.copy[h] = 0 THEN "copy"
    ELSE IF d.pdf[h] = 0 \/ d.pdf[h] < d.copy[h] THEN "pdf"
    ELSE IF d.md[h] = 0 \/ d.md[h] < d.pdf[h] THEN "md"
    ELSE IF existing = <<>> THEN "norecords"
    ELSE IF \E i \in 1 .. Len(existing) :
               ~RecExists(d, existing[i]) \/ RecMtime(d, existing[i]) < d.md[h]
         THEN "chunks"
    ELSE "none"

\* History only: an artifact of source h is missing: its copy, PDF or
\* markdown, or a chunk file chnk_<h>_<n>.md that the prior manifest
\* records under hash h (in chunk_markdown/ and in CHUNKS_TEXTS/).
ArtifactMissing(d, p, h) ==
    \/ d.copy[h] = 0 \/ d.pdf[h] = 0 \/ d.md[h] = 0
    \/ \E i \in 1 .. Len(p) :
          p[i].key = h /\ p[i].id.h = h /\ Locate(d, p[i].id) = "none"

NoDecision == [d |-> "none", link |-> "none", missing |-> FALSE,
               extracted |-> FALSE, xpdf |-> 0, xcopy |-> 0, failed |-> "no",
               chunked |-> 0, o |-> [n |-> 0, ok |-> FALSE],
               purged |-> <<>>, reused |-> <<>>, fresh |-> <<>>, kept |-> <<>>]
NoWork == [conv |-> 0, ext |-> 0, rw |-> 0]
NoManifest == [chunks |-> <<>>, refresh |-> FALSE]
NoFuture == [st |-> "none", ok |-> FALSE, recs |-> <<>>]
NoPool == [c |-> 0, workers |-> 0]
NoError == [attempts |-> 0, text |-> ""]
NoCv == [h |-> 1, ext |-> ".pdf", converter |-> TRUE, attempts |-> 0,
         attempt |-> 0, last |-> "", calls |-> 0, error |-> NoError]

Message(phase, h) == [phase |-> phase, h |-> h]

\* ------------------------------------------------- prior artifact states
\* The artifacts one source may have left on disk, every combination.
GenericChains == [src : 1 .. MaxT0, copy : 0 .. MaxT0, pdf : 0 .. MaxT0, md : 0 .. MaxT0]

\* The chain an earlier complete run left, its markdown touched since.
TouchedChain == [src |-> 1, copy |-> 1, pdf |-> 1, md |-> MaxT0]

Other(f) == CHOOSE g \in Hashes : g # f

\* Prior records about source f: none, one, two, a repeated line, a record
\* whose identity carries another hash, a mix, and a record of f's chunk
\* filed under the other hash.
GenericRecords(f) ==
    {<<>>, <<Rec(f, 0, f)>>, <<Rec(f, 0, f), Rec(f, 1, f)>>,
     <<Rec(f, 0, f), Rec(f, 0, f)>>, <<Rec(Other(f), 0, f)>>,
     <<Rec(f, 0, f), Rec(Other(f), 0, f)>>, <<Rec(f, 0, f), Rec(f, 0, Other(f))>>}

SimpleRecords(f) == {<<>>, <<Rec(f, 0, f)>>}

\* The chunk files of hash f that records rs name, each missing or of any
\* age; a file no record names is never looked at and is left out.
ChunkFileStates(f, rs, times) ==
    LET named == {rs[i].id : i \in 1 .. Len(rs)} \cap {Cid(f, 0), Cid(f, 1)}
    IN {m \in [{Cid(f, 0), Cid(f, 1)} -> {0} \cup times] :
            \A c \in DOMAIN m : c \notin named => m[c] = 0}

\* The other source g: not in the input and never seen; removed from the
\* input after a complete run; new in the input; unchanged since a
\* complete run.
OtherProfiles == {"absent", "gone", "new", "fresh"}

OtherChain(profile) ==
    CASE profile = "absent" -> [src |-> 0, copy |-> 0, pdf |-> 0, md |-> 0]
      [] profile = "gone"   -> [src |-> 0, copy |-> 1, pdf |-> 1, md |-> 1]
      [] profile = "new"    -> [src |-> 1, copy |-> 0, pdf |-> 0, md |-> 0]
      [] profile = "fresh"  -> [src |-> 1, copy |-> 1, pdf |-> 1, md |-> 1]

OtherChunked(profile) == profile \in {"gone", "fresh"}

\* The disk and the prior manifest of one prior state: source f has chain
\* ch, records rs, chunk files cf and, when alt > 0, CHUNKS_TEXTS/chnk_f_0.md.
World(f, ch, rs, cf, alt, profile, chk) ==
    LET g  == Other(f)
        oc == OtherChain(profile)
        at(x, y) == [h \in Hashes |-> IF h = f THEN x ELSE y]
        rg == IF OtherChunked(profile) /\ chk THEN <<Rec(g, 0, g)>> ELSE <<>>
    IN [disk |-> [src   |-> at(ch.src, oc.src),
                  copy  |-> at(ch.copy, oc.copy),
                  pdf   |-> at(ch.pdf, oc.pdf),
                  md    |-> at(ch.md, oc.md),
                  chunk |-> [c \in ChunkIds |->
                               IF c \in DOMAIN cf THEN cf[c]
                               ELSE IF c = Cid(g, 0) /\ OtherChunked(profile) /\ chk
                                    THEN 1 ELSE 0],
                  alt   |-> [c \in ChunkIds |-> IF c = Cid(f, 0) THEN alt ELSE 0]],
        prior |-> IF f < g THEN rs \o rg ELSE rg \o rs,
        chunking |-> chk]

\* Every chain of one source, alone in the input, with simple records.
ChainWorldsOf(f, rs) ==
    {World(f, ch, rs, cf, 0, "absent", TRUE) :
        ch \in GenericChains,
        cf \in ChunkFileStates(f, rs, 1 .. MaxT0)}

ChainWorlds ==
    UNION {UNION {ChainWorldsOf(f, rs) : rs \in SimpleRecords(f)} : f \in Hashes}

\* Every record list and chunk file state of one source, on a chain whose
\* copy, PDF and markdown are fresh: a chunk file is missing, older than
\* the markdown or not older.
RecordWorldsOf(f, rs) ==
    {World(f, TouchedChain, rs, cf, alt, pr, TRUE) :
        cf \in ChunkFileStates(f, rs, 0 .. MaxT0), alt \in {0, MaxT0}, pr \in OtherProfiles}

RecordWorlds ==
    UNION {UNION {RecordWorldsOf(f, rs) : rs \in GenericRecords(f)} : f \in Hashes}

\* Chunking disabled: the prior manifest is never read.
PlainWorlds ==
    {World(f, ch, <<>>, [c \in {Cid(f, 0), Cid(f, 1)} |-> 0], 0, pr, FALSE) :
        f \in Hashes, ch \in GenericChains, pr \in {"absent", "new"}}

\* No eligible file in the input root; artifacts and records of removed
\* sources may be left from earlier runs.
EmptyWorldsOf(f, rs) ==
    {World(f, [src |-> 0, copy |-> 1, pdf |-> 1, md |-> 1], rs, cf, 0, pr, chk) :
        cf \in ChunkFileStates(f, rs, {1}),
        pr \in {"absent", "gone"}, chk \in BOOLEAN}

EmptyWorlds ==
    UNION {UNION {EmptyWorldsOf(f, rs) : rs \in SimpleRecords(f)} : f \in Hashes}

\* A source that was chunked at the location with hash g and has since
\* been moved to the location with hash f, where no run has left anything:
\* the artifacts and the record of g are those of the complete run.
MovedWorlds ==
    {World(f, [src |-> t, copy |-> 0, pdf |-> 0, md |-> 0], <<>>,
           [c \in {Cid(f, 0), Cid(f, 1)} |-> 0], 0, "gone", TRUE) :
        f \in Hashes, t \in 1 .. MaxT0}

Worlds == ChainWorlds \cup RecordWorlds \cup PlainWorlds \cup EmptyWorlds
            \cup MovedWorlds

\* ------------------------------------------------------------- pipeline
\* The locals of run_conversion_pipeline and the histories before any run.
NoRunYet ==
    /\ run = 1
    /\ idx = 0
    /\ uploads = <<>>
    /\ ecm = [k \in Hashes |-> <<>>]
    /\ chunks = <<>>
    /\ seen = {}
    /\ errors = <<>>
    /\ prepared = <<>>
    /\ futures = [h \in Hashes |-> NoFuture]
    /\ manifest = NoManifest
    /\ work = NoWork
    /\ dec = [h \in Hashes |-> NoDecision]
    /\ offered = <<>>
    /\ units = {}
    /\ pool = NoPool
    /\ manifest1 = NoManifest

\* No rewrite pass is modelled in detail: the pipeline counts them in work.
NoRewriteYet ==
    /\ img = [p \in {"/m/a.png", "/m/b.png"} |-> 0]
    /\ cache = [exists |-> FALSE, map |-> <<>>]
    /\ rw = <<>>
    /\ sent = <<>>

InitPipeline ==
    \E w \in Worlds :
        /\ mode = "pipeline"
        /\ disk = w.disk
        /\ prior = w.prior
        /\ chunking = w.chunking
        /\ now = MaxT0
        /\ options = [t |-> "int", v |-> PipelineAttempts]
        /\ pc = "start"
        /\ cv = NoCv
        /\ disk0 = w.disk
        /\ NoRunYet
        /\ NoRewriteYet

\* Mutant of NoInputManifest: the flag follows enable_chunking as it does
\* at the end of a run.
NoInputManifestFlagged(chk) == [chunks |-> <<>>, refresh |-> chk]

\* lines 131-138: the manifest returned when no eligible file is found.
NoInputManifest(chk) == [chunks |-> <<>>, refresh |-> FALSE]

\* run_conversion_pipeline, lines 120-148: discovery, the early return for
\* an empty input, the load of the prior manifest.
StartRun ==
    /\ mode = "pipeline" /\ pc = "start"
    /\ LET found == Discover(disk)
       IN /\ uploads' = found
          /\ IF found = <<>>
             THEN /\ manifest' = NoInputManifest(chunking)
                  /\ pc' = "returned"
                  /\ UNCHANGED <<ecm, idx>>
             ELSE /\ ecm' = IF chunking THEN LoadExistingChunkMap(prior, disk)
                            ELSE [k \in Hashes |-> <<>>]
                  /\ idx' = 1
                  /\ pc' = "loop"
                  /\ manifest' = NoManifest
    /\ chunks' = <<>> /\ seen' = {} /\ errors' = <<>> /\ prepared' = <<>>
    /\ futures' = [h \in Hashes |-> NoFuture]
    /\ work' = NoWork /\ disk0' = disk /\ dec' = [h \in Hashes |-> NoDecision]
    /\ offered' = <<>> /\ units' = {} /\ pool' = NoPool
    /\ UNCHANGED rwVars
    /\ UNCHANGED <<mode, disk, now, options, cv, prior, chunking, run, manifest1>>

\* One turn of the per-source loop, lines 150-183: copy the original, purge
\* mismatching chunks, decide; a skipped source is done, another enters
\* _prepare_source_file.
LoopStep ==
    /\ mode = "pipeline" /\ pc = "loop" /\ idx <= Len(uploads)
    /\ LET h        == uploads[idx]
           d1       == CopyOriginal(disk, h)
           found    == IF chunking THEN ecm[h] ELSE <<>>
           mismatch == found # <<>> /\ ~ChunksMatchHash(found, h)
           d2       == IF mismatch THEN RemoveChunkArtifacts(d1, found) ELSE d1
           existing == IF mismatch THEN <<>> ELSE found
           skip     == IF chunking THEN ShouldSkipReprocessing(d2, h, existing)
                       ELSE ArtifactsUpToDate(d2, h)
           acc      == AppendUnseen(d2, [chunks |-> chunks, seen |-> seen,
                                         offered |-> offered], existing)
       IN /\ disk' = d2
          /\ now' = now + 1
          /\ dec' = [dec EXCEPT ![h] =
                        [NoDecision EXCEPT
                            !.d = IF skip THEN "skip" ELSE "redo",
                            !.link = IF disk.copy[h] = 0 \/ disk.src[h] > disk.copy[h]
                                     THEN "copy"
                                     ELSE FirstFailingLink(d2, h, existing),
                            !.missing = ArtifactMissing(d2, prior, h),
                            !.purged = IF mismatch THEN found ELSE <<>>,
                            !.reused = IF skip /\ chunking
                                       THEN SubSeq(acc.chunks, Len(chunks) + 1,
                                                   Len(acc.chunks))
                                       ELSE <<>>]]
          /\ IF skip
             THEN /\ IF chunking
                     THEN /\ chunks' = acc.chunks
                          /\ seen' = acc.seen
                          /\ offered' = acc.offered
                          /\ ecm' = [ecm EXCEPT ![h] = <<>>]
                     ELSE UNCHANGED <<chunks, seen, offered, ecm>>
                  /\ idx' = idx + 1
                  /\ pc' = "loop"
                  /\ UNCHANGED cv
             ELSE /\ cv' = [NoCv EXCEPT !.h = h, !.ext = ExtOf(h)]
                  /\ pc' = "cv_enter"
                  /\ UNCHANGED <<chunks, seen, offered, ecm, idx>>
    /\ UNCHANGED rwVars
    /\ UNCHANGED <<mode, options, prior, chunking, run, uploads, errors,
                   prepared, futures, manifest, work, disk0, pool, units, manifest1>>

\* ------------------------------------------------------- _convert_to_pdf
\* int(x) of Python on the option: an int or a numeric string converts, any
\* other value raises TypeError or ValueError.
PyInt(o) == IF o.t \in {"int", "str"} THEN [ok |-> TRUE, v |-> o.v]
            ELSE [ok |-> FALSE, v |-> 0]

\* Mutant of Attempts: retries are granted to every extension.
AttemptsForAnyExtension(o, ext) ==
    LET asked == IF o.t = "none" THEN DEFAULT_CONVERSION_ATTEMPTS
                 ELSE IF PyInt(o).ok THEN PyInt(o).v
                 ELSE DEFAULT_CONVERSION_ATTEMPTS
    IN Max(1, asked)

\* lines 574-587: the number of attempts granted
Attempts(o, ext) ==
    LET asked == IF o.t = "none" THEN DEFAULT_CONVERSION_ATTEMPTS
                 ELSE IF PyInt(o).ok THEN PyInt(o).v
                 ELSE DEFAULT_CONVERSION_ATTEMPTS
        floor == Max(1, asked)
    IN IF ext \notin RETRY_ELIGIBLE_EXTENSIONS /\ floor > 1 THEN 1 ELSE floor

\* What the caller does with the outcome of _convert_to_pdf: the pipeline
\* goes on to extraction or files the error (lines 206-209); the direct
\* call ends.
ConvertReturns ==
    /\ pc' = IF mode = "pipeline" THEN "extract" ELSE "cv_done"
    /\ UNCHANGED <<errors, idx, dec>>

ConvertRaises ==
    IF mode = "pipeline"
    THEN /\ errors' = Append(errors, Message("process", cv.h))
         /\ dec' = [dec EXCEPT ![cv.h].failed = "process"]
         /\ idx' = idx + 1
         /\ pc' = "loop"
    ELSE /\ pc' = "cv_raised"
         /\ UNCHANGED <<errors, idx, dec>>

\* lines 558-587: a PDF source is copied when the copy is newer; an
\* existing PDF artifact is returned as it is; otherwise the loop is set up.
ConvertEnter ==
    /\ pc = "cv_enter"
    /\ LET h == cv.h
       IN IF cv.ext = ".pdf"
          THEN /\ disk' = IF disk.pdf[h] = 0 \/ disk.copy[h] > disk.pdf[h]
                          THEN [disk EXCEPT !.pdf[h] = disk.copy[h]]
                          ELSE disk
               /\ ConvertReturns
               /\ UNCHANGED cv
          ELSE IF disk.pdf[h] > 0
          THEN /\ ConvertReturns
               /\ UNCHANGED <<disk, cv>>
          ELSE IF ~cv.converter
          THEN /\ ConvertRaises
               /\ UNCHANGED <<disk, cv>>
          ELSE /\ cv' = [cv EXCEPT !.attempts = Attempts(options, cv.ext),
                                   !.attempt = 1]
               /\ pc' = "cv_attempt"
               /\ UNCHANGED <<disk, errors, idx, dec>>
    /\ UNCHANGED rwVars
    /\ UNCHANGED <<mode, now, options, prior, chunking, run, uploads, ecm,
                   chunks, seen, prepared, futures, manifest,
                   work, disk0, pool, offered, units, manifest1>>

\* The failure messages a converter may give; the pipeline runs are
\* explored with one.
ConverterMessages == IF mode = "convert" THEN {"", "e1", "e2"} ELSE {"e1"}

\* Mutant of AfterFailedAttempt: the partial output is left in place.
AfterFailedAttemptKeepsFile(d, h) == d

\* After a failed attempt, lines 603-606: the message is kept and a file
\* left at pdf_path is unlinked.
AfterFailedAttempt(d, h) == IF d.pdf[h] > 0 THEN [d EXCEPT !.pdf[h] = 0] ELSE d

\* lines 608-611
ConversionError(attempts, last) ==
    [attempts |-> attempts, text |-> IF last = "" THEN "unknown error" ELSE last]

\* One turn of the retry loop, lines 590-606, and the raise after the last.
\* A failing converter may leave a partial file at pdf_path.
ConvertAttempt ==
    /\ pc = "cv_attempt"
    /\ \E success \in BOOLEAN, partial \in BOOLEAN, msg \in ConverterMessages :
        LET h == cv.h
        IN /\ work' = [work EXCEPT !.conv = @ + 1]
           /\ IF success
              THEN /\ disk' = [disk EXCEPT !.pdf[h] = now]
                   /\ cv' = [cv EXCEPT !.calls = @ + 1]
                   /\ ConvertReturns
              ELSE /\ disk' = AfterFailedAttempt(
                                [disk EXCEPT !.pdf[h] = IF partial THEN now ELSE 0], h)
                   /\ IF cv.attempt < cv.attempts
                      THEN /\ cv' = [cv EXCEPT !.calls = @ + 1, !.last = msg,
                                               !.attempt = @ + 1]
                           /\ UNCHANGED <<pc, errors, idx, dec>>
                      ELSE /\ cv' = [cv EXCEPT !.calls = @ + 1, !.last = msg,
                                               !.error = ConversionError(cv.attempts, msg)]
                           /\ ConvertRaises
    /\ UNCHANGED rwVars
    /\ UNCHANGED <<mode, now, options, prior, chunking, run, uploads, ecm,
                   chunks, seen, prepared, futures, manifest,
                   disk0, pool, offered, units, manifest1>>

\* _render_markdown_and_assets, lines 614-651, and the filing of the
\* prepared source or of the error, lines 203-209: the extractor writes a
\* markdown file or none; the rewriter writes <hash>.md.
Extract ==
    /\ mode = "pipeline" /\ pc = "extract"
    /\ \E produced \in BOOLEAN :
        LET h == cv.h
        IN /\ dec' = [dec EXCEPT ![h].extracted = TRUE,
                                 ![h].xpdf = disk.pdf[h],
                                 ![h].xcopy = disk.copy[h],
                                 ![h].failed = IF produced THEN "no" ELSE "process"]
           /\ IF produced
              THEN /\ work' = [work EXCEPT !.ext = @ + 1, !.rw = @ + 1]
                   /\ disk' = [disk EXCEPT !.md[h] = now]
                   /\ prepared' = IF chunking THEN Append(prepared, h) ELSE prepared
                   /\ UNCHANGED errors
              ELSE /\ work' = [work EXCEPT !.ext = @ + 1]
                   /\ errors' = Append(errors, Message("process", h))
                   /\ UNCHANGED <<disk, prepared>>
    /\ idx' = idx + 1
    /\ pc' = "loop"
    /\ UNCHANGED rwVars
    /\ UNCHANGED <<mode, now, options, cv, prior, chunking, run, uploads, ecm,
                   chunks, seen, futures, manifest, disk0, pool, offered, units, manifest1>>

\* max(1, os.cpu_count() or 1), line 214 (0 stands for None): the units of
\* concurrency the host offers.
Concurrency(cpus) == Max(1, IF cpus = 0 THEN 1 ELSE cpus)

\* Mutant of MaxWorkers: one worker for every prepared document.
MaxWorkersPerDocument(cpus, n) == n

\* max_workers, line 214.
MaxWorkers(cpus, n) == Min(Concurrency(cpus), n)

\* Mutant of AfterLoop: the errors of the preparations do not end the run.
AfterLoopIgnoringErrors ==
    /\ mode = "pipeline" /\ pc = "loop" /\ idx > Len(uploads)
    /\ \E cpus \in 0 .. MaxCpus :
        LET max_workers == MaxWorkers(cpus, Len(prepared))
        IN IF FALSE
           THEN /\ pc' = "raised"
                /\ UNCHANGED <<idx, futures, now, pool>>
           ELSE IF chunking /\ prepared # <<>>
           THEN /\ now' = now + 1
                /\ pool' = [c |-> Concurrency(cpus), workers |-> max_workers]
                /\ IF Len(prepared) = 1 \/ max_workers = 1
                   THEN /\ pc' = "chunk_seq"
                        /\ idx' = 1
                        /\ UNCHANGED futures
                   ELSE /\ pc' = "chunk_pool"
                        /\ futures' = [h \in Hashes |->
                                          IF h \in Range(prepared)
                                          THEN [NoFuture EXCEPT !.st = "pending"]
                                          ELSE NoFuture]
                        /\ UNCHANGED idx
           ELSE /\ pc' = "assemble"
                /\ UNCHANGED <<idx, futures, now, pool>>
    /\ UNCHANGED rwVars
    /\ UNCHANGED <<mode, disk, options, cv, prior, chunking, run, uploads, ecm,
                   chunks, seen, errors, prepared, manifest,
                   work, disk0, dec, offered, units, manifest1>>

\* lines 211-230 and 253-257: raise on preparation errors, else choose the
\* sequential loop or a pool of max_workers and submit every unit to it.
AfterLoop ==
    /\ mode = "pipeline" /\ pc = "loop" /\ idx > Len(uploads)
    /\ \E cpus \in 0 .. MaxCpus :
        LET max_workers == MaxWorkers(cpus, Len(prepared))
        IN IF errors # <<>>
           THEN /\ pc' = "raised"
                /\ UNCHANGED <<idx, futures, now, pool>>
           ELSE IF chunking /\ prepared # <<>>
           THEN /\ now' = now + 1
                /\ pool' = [c |-> Concurrency(cpus), workers |-> max_workers]
                /\ IF Len(prepared) = 1 \/ max_workers = 1
                   THEN /\ pc' = "chunk_seq"
                        /\ idx' = 1
                        /\ UNCHANGED futures
                   ELSE /\ pc' = "chunk_pool"
                        /\ futures' = [h \in Hashes |->
                                          IF h \in Range(prepared)
                                          THEN [NoFuture EXCEPT !.st = "pending"]
                                          ELSE NoFuture]
                        /\ UNCHANGED idx
           ELSE /\ pc' = "assemble"
                /\ UNCHANGED <<idx, futures, now, pool>>
    /\ UNCHANGED rwVars
    /\ UNCHANGED <<mode, disk, options, cv, prior, chunking, run, uploads, ecm,
                   chunks, seen, errors, prepared, manifest,
                   work, disk0, dec, offered, units, manifest1>>

\* Mutant of Collect: a later failure replaces the earlier messages.
CollectOverwrites(h, res) ==
    IF res.ok
    THEN /\ chunks' = chunks \o res.recs
         /\ seen' = seen \cup {res.recs[i].id : i \in 1 .. Len(res.recs)}
         /\ offered' = offered \o res.recs
         /\ ecm' = [ecm EXCEPT ![h] = <<>>]
         /\ UNCHANGED errors
    ELSE /\ errors' = <<Message("chunk", h)>>
         /\ UNCHANGED <<chunks, seen, offered, ecm>>

\* Mutant of Collect: the records recovered for the key are left in the
\* chunk map after the unit has succeeded.
CollectKeepingRecovered(h, res) ==
    IF res.ok
    THEN /\ chunks' = chunks \o res.recs
         /\ seen' = seen \cup {res.recs[i].id : i \in 1 .. Len(res.recs)}
         /\ offered' = offered \o res.recs
         /\ UNCHANGED ecm
         /\ UNCHANGED errors
    ELSE /\ errors' = Append(errors, Message("chunk", h))
         /\ UNCHANGED <<chunks, seen, offered, ecm>>

\* What the coordinator does with the outcome of one unit, lines 234-251
\* and 262-279.
Collect(h, res) ==
    IF res.ok
    THEN /\ chunks' = chunks \o res.recs
         /\ seen' = seen \cup {res.recs[i].id : i \in 1 .. Len(res.recs)}
         /\ offered' = offered \o res.recs
         /\ ecm' = [ecm EXCEPT ![h] = <<>>]
         /\ UNCHANGED errors
    ELSE /\ errors' = Append(errors, Message("chunk", h))
         /\ UNCHANGED <<chunks, seen, offered, ecm>>

\* One turn of the sequential chunking loop, lines 232-251.
ChunkSeqStep ==
    /\ mode = "pipeline" /\ pc = "chunk_seq" /\ idx <= Len(prepared)
    /\ \E o \in ChunkOutcomes :
        LET h   == prepared[idx]
            res == ChunkPreparedSource(disk, h, o, now)
        IN /\ disk' = res.disk
           /\ units' = units \cup {h}
           /\ dec' = [dec EXCEPT ![h].failed = IF res.ok THEN "no" ELSE "chunk",
                                 ![h].fresh = IF res.ok THEN res.recs ELSE <<>>,
                                 ![h].chunked = @ + 1,
                                 ![h].o = o]
           /\ Collect(h, res)
    /\ idx' = idx + 1
    /\ pc' = IF idx = Len(prepared) THEN "assemble" ELSE "chunk_seq"
    /\ UNCHANGED rwVars
    /\ UNCHANGED <<mode, now, options, cv, prior, chunking, run, uploads,
                   prepared, futures, manifest, work, disk0, pool, manifest1>>

\* The units a worker of the pool is executing.
Running == {h \in Hashes : futures[h].st = "running"}

\* An idle worker of the pool takes a submitted unit, lines 253-257: the
\* executor has max_workers workers and each executes one unit at a time.
PoolStart ==
    /\ mode = "pipeline" /\ pc = "chunk_pool"
    /\ Cardinality(Running) < pool.workers
    /\ \E h \in Hashes :
        /\ futures[h].st = "pending"
        /\ futures' = [futures EXCEPT ![h].st = "running"]
    /\ UNCHANGED rwVars
    /\ UNCHANGED <<mode, disk, now, options, pc, cv, prior, chunking, run, idx, uploads,
                   ecm, chunks, seen, errors, prepared, manifest, histVars>>

\* A worker executes its unit to the end, line 255.
PoolRun ==
    /\ mode = "pipeline" /\ pc = "chunk_pool"
    /\ \E h \in Hashes, o \in ChunkOutcomes :
        /\ futures[h].st = "running"
        /\ LET res == ChunkPreparedSource(disk, h, o, now)
           IN /\ disk' = res.disk
              /\ futures' = [futures EXCEPT ![h] =
                                [st |-> "done", ok |-> res.ok, recs |-> res.recs]]
              /\ units' = units \cup {h}
              /\ dec' = [dec EXCEPT ![h].failed = IF res.ok THEN "no" ELSE "chunk",
                                    ![h].fresh = IF res.ok THEN res.recs ELSE <<>>,
                                    ![h].chunked = @ + 1,
                                 ![h].o = o]
    /\ UNCHANGED rwVars
    /\ UNCHANGED <<mode, now, options, pc, cv, prior, chunking, run, idx, uploads,
                   ecm, chunks, seen, errors, prepared, manifest,
                   work, disk0, pool, offered, manifest1>>

\* Mutant of PoolCollect: the coordinator leaves the pool at the first
\* failed unit.
PoolCollectLeavingOnFailure ==
    /\ mode = "pipeline" /\ pc = "chunk_pool"
    /\ \E h \in Hashes :
        /\ futures[h].st = "done"
        /\ futures' = [futures EXCEPT ![h].st = "collected"]
        /\ Collect(h, futures[h])
        /\ pc' = IF ~futures[h].ok
                    \/ \A g \in Hashes \ {h} : futures[g].st \in {"none", "collected"}
                 THEN "assemble" ELSE "chunk_pool"
    /\ UNCHANGED rwVars
    /\ UNCHANGED <<mode, disk, now, options, cv, prior, chunking, run, idx, uploads,
                   prepared, manifest, work, disk0, pool, dec, units, manifest1>>

\* The coordinator takes the next completed future, lines 259-279; after
\* the last one the pool is left.
PoolCollect ==
    /\ mode = "pipeline" /\ pc = "chunk_pool"
    /\ \E h \in Hashes :
        /\ futures[h].st = "done"
        /\ futures' = [futures EXCEPT ![h].st = "collected"]
        /\ Collect(h, futures[h])
        /\ pc' = IF \A g \in Hashes \ {h} : futures[g].st \in {"none", "collected"}
                 THEN "assemble" ELSE "chunk_pool"
    /\ UNCHANGED rwVars
    /\ UNCHANGED <<mode, disk, now, options, cv, prior, chunking, run, idx, uploads,
                   prepared, manifest, work, disk0, pool, dec, units, manifest1>>

\* lines 281-300: raise on chunking errors, else add the leftover prior
\* records and return the manifest.
Assemble ==
    /\ mode = "pipeline" /\ pc = "assemble"
    /\ IF errors # <<>>
       THEN /\ pc' = "raised"
            /\ UNCHANGED <<chunks, seen, offered, manifest, dec>>
       ELSE LET keys == KeyOrder(Loadable(disk0, prior), <<>>)
                acc == IF chunking
                       THEN LeftoverAll(disk, [chunks |-> chunks, seen |-> seen,
                                               offered |-> offered],
                                        ecm, keys)
                       ELSE [chunks |-> chunks, seen |-> seen, offered |-> offered]
            IN /\ dec' = [k \in Hashes |->
                            [dec[k] EXCEPT !.kept =
                                IF chunking
                                THEN KeptFor(disk, [chunks |-> chunks, seen |-> seen,
                                                    offered |-> offered],
                                             ecm, keys, k)
                                ELSE <<>>]]
               /\ chunks' = acc.chunks
               /\ seen' = acc.seen
               /\ offered' = acc.offered
               /\ manifest' = [chunks |-> acc.chunks, refresh |-> chunking]
               /\ pc' = "returned"
    /\ UNCHANGED rwVars
    /\ UNCHANGED <<mode, disk, now, options, cv, prior, chunking, run, idx, uploads,
                   ecm, errors, prepared, futures, work, disk0, pool, units, manifest1>>

\* The manifest is persisted as CHUNKS.jsonl by the caller and the pipeline
\* is run again on the unchanged tree.
PersistAndRerun ==
    /\ mode = "pipeline" /\ pc = "returned" /\ run < MaxRuns
    /\ prior' = [i \in 1 .. Len(manifest.chunks) |->
                    [id |-> manifest.chunks[i].id, key |-> manifest.chunks[i].key]]
    /\ manifest1' = manifest
    /\ run' = run + 1
    /\ pc' = "start"
    /\ UNCHANGED rwVars
    /\ UNCHANGED <<mode, disk, now, options, cv, chunking, idx, uploads, ecm, chunks,
                   seen, errors, prepared, futures, manifest,
                   work, disk0, pool, dec, offered, units>>

Next ==
    \/ StartRun
    \/ LoopStep
    \/ ConvertEnter
    \/ ConvertAttempt
    \/ Extract
    \/ AfterLoop
    \/ ChunkSeqStep
    \/ PoolStart
    \/ PoolRun
    \/ PoolCollect
    \/ Assemble
    \/ PersistAndRerun

Spec == InitPipeline /\ [][Next]_vars

\* -------------------------------------------- _convert_to_pdf, directly
\* The values extra_options may hold under max_conversion_attempts: absent,
\* an int, a numeric string, a value int() rejects.
OptionValues ==
    {[t |-> "none", v |-> 0], [t |-> "bad", v |-> 0], [t |-> "str", v |-> 2]}
        \cup {[t |-> "int", v |-> n] : n \in -1 .. MaxOpt}

InitConvert ==
    \E copied \in 1 .. MaxT0, pdf \in 0 .. MaxT0, ext \in Exts,
       conv \in BOOLEAN, o \in OptionValues :
        /\ mode = "convert"
        /\ disk = [NoFiles EXCEPT !.src[1] = copied, !.copy[1] = copied, !.pdf[1] = pdf]
        /\ disk0 = [NoFiles EXCEPT !.src[1] = copied, !.copy[1] = copied, !.pdf[1] = pdf]
        /\ prior = <<>>
        /\ chunking = TRUE
        /\ now = MaxT0 + 1
        /\ options = o
        /\ pc = "cv_enter"
        /\ cv = [NoCv EXCEPT !.h = 1, !.ext = ext, !.converter = conv]
        /\ NoRunYet
        /\ NoRewriteYet

NextConvert ==
    \/ ConvertEnter
    \/ ConvertAttempt

SpecConvert == InitConvert /\ [][NextConvert]_vars

\* ------------------------------------------------ markdown_rewriter.py
\* The image files a document may reference and their possible contents.
ImagePaths == {"/m/a.png", "/m/b.png"}
Contents == {1, 2}

\* The image tags of the documents, as the scanner extracts them: two
\* spellings of one destination, one with an alt text and one with a blank
\* one, and a destination without alt text.
ImageTags ==
    {[alt_text |-> "alt", destination |-> "a.png"],
     [alt_text |-> " ",   destination |-> "./a.png"],
     [alt_text |-> "",    destination |-> "b.png"]}
\* The tag ![]() : no alt text and no destination.
BareTag == [alt_text |-> "", destination |-> ""]
Documents == UNION {[1 .. k -> ImageTags] : k \in 0 .. MaxTags} \cup {<<BareTag>>}

None == "None"
Placeholder == "[image]"
Omitted == "omitted"
\* What the captioning service may answer for one requested image.
ServiceTexts == {Omitted, " ", " c1 ", "c2"}

\* str.strip on the strings of the model
Strip(s) == CASE s = " " -> "" [] s = " c1 " -> "c1" [] OTHER -> s

\* Path(...).stem on the paths and destinations of the model
Stem(p) == IF p = "" THEN "" ELSE IF p \in {"/m/b.png", "b.png"} THEN "b" ELSE "a"

\* _resolve_image_path, lines 237-261: the candidate under the markdown's
\* directory when it exists (the image tree is flat, so the search by
\* file name finds the same file or none).
ResolveImagePath(raw, im) ==
    LET cleaned   == Strip(raw)
        candidate == IF cleaned = "b.png" THEN "/m/b.png" ELSE "/m/a.png"
    IN IF cleaned = "" THEN None
       ELSE IF im[candidate] > 0 THEN candidate
       ELSE None

\* Mutant of MakeTargetKey: targets are told apart by the raw destination.
MakeTargetKeyFromRaw(resolved, raw_path) == raw_path

\* _make_target_key, lines 264-270
MakeTargetKey(resolved, raw_path) == IF resolved # None THEN resolved ELSE raw_path

\* The asset identity <source_hash>_img_<nnn>, line 76
AssetId(h, n) == [h |-> h, n |-> n]

\* rewrite_markdown_with_captions, lines 51-66: one entry per tag
EntryOf(tag, im) ==
    LET alt == Strip(tag.alt_text)
    IN [alt      |-> alt,
        raw_path |-> tag.destination,
        resolved |-> ResolveImagePath(tag.destination, im),
        fallback |-> IF alt # "" THEN alt
                     ELSE IF Stem(tag.destination) # "" THEN Stem(tag.destination)
                     ELSE Placeholder]

\* rewrite_markdown_with_captions, lines 68-86: entries are grouped into
\* buckets by target key; acc carries targets (with the key of lookup) and
\* the asset identity given to every entry.
RECURSIVE GroupTargets(_, _, _, _)
GroupTargets(h, entries, i, acc) ==
    IF i > Len(entries) THEN acc
    ELSE LET e     == entries[i]
             key   == MakeTargetKey(e.resolved, e.raw_path)
             found == {k \in 1 .. Len(acc.targets) : acc.targets[k].key = key}
         IN IF found = {}
            THEN GroupTargets(h, entries, i + 1,
                     [targets |-> Append(acc.targets,
                                     [id       |-> AssetId(h, Len(acc.targets)),
                                      key      |-> key,
                                      resolved |-> e.resolved,
                                      raw_path |-> e.raw_path,
                                      alts     |-> <<e.alt>>]),
                      ids     |-> Append(acc.ids, AssetId(h, Len(acc.targets)))])
            ELSE LET k == CHOOSE k \in found : TRUE
                 IN GroupTargets(h, entries, i + 1,
                        [targets |-> [acc.targets EXCEPT
                                         ![k].alts = Append(@, e.alt)],
                         ids     |-> Append(acc.ids, acc.targets[k].id)])

\* The cache key "<model>::<sha1 of the bytes>", line 337, the model fixed
CacheKey(content) == [model |-> "m", digest |-> content]
CacheKeys == {CacheKey(c) : c \in Contents}
EmptyCache == [k \in CacheKeys |-> ""]

\* Mutant of LoadCaptionCache: whatever the file holds is taken.
LoadCaptionCacheUnchecked(file) == IF file.exists THEN file.map ELSE EmptyCache

\* _load_caption_cache, lines 394-403: "" stands for "no entry"; a file that
\* cannot be read or parsed gives the empty cache.
LoadCaptionCache(file) ==
    IF file.exists /\ ~file.corrupt THEN file.map ELSE EmptyCache

\* _generate_caption_lookup, line 288
Existing(targets, im) ==
    SelectSeq(targets, LAMBDA t : t.resolved # None /\ im[t.resolved] > 0)

\* _generate_caption_lookup, lines 315-317: the cache-disabled mapping;
\* None stands for "no entry for this asset".
UncachedLookup(targets, im, raw) ==
    [k \in 1 .. Len(targets) |->
        IF targets[k].resolved # None /\ im[targets[k].resolved] > 0
              /\ raw[targets[k].resolved] # Omitted
        THEN Strip(raw[targets[k].resolved])
        ELSE None]

\* _generate_caption_lookup, lines 330-345: cache hits and the request list
CacheHit(known, content) == Strip(known[CacheKey(content)]) # ""

ToRequest(targets, im, known) ==
    SelectSeq(Existing(targets, im), LAMBDA t : ~CacheHit(known, im[t.resolved]))

HitLookup(targets, im, known) ==
    [k \in 1 .. Len(targets) |->
        IF targets[k].resolved # None /\ im[targets[k].resolved] > 0
              /\ CacheHit(known, im[targets[k].resolved])
        THEN Strip(known[CacheKey(im[targets[k].resolved])])
        ELSE None]

\* Mutant of MergeAnswers: every answer is stored as it came, blank or not.
RECURSIVE MergeAnswersUnchecked(_, _, _, _, _, _)
MergeAnswersUnchecked(targets, im, order, raw, i, acc) ==
    IF i > Len(order) THEN acc
    ELSE LET p   == order[i]
             k   == CHOOSE k \in 1 .. Len(targets) : targets[k].resolved = p
             key == CacheKey(im[p])
         IN IF raw[p] = Omitted
            THEN MergeAnswersUnchecked(targets, im, order, raw, i + 1, acc)
            ELSE MergeAnswersUnchecked(targets, im, order, raw, i + 1,
                     [captions |-> [acc.captions EXCEPT ![k] = raw[p]],
                      cache    |-> [acc.cache EXCEPT ![key] = raw[p]],
                      changed  |-> acc.changed \/ acc.cache[key] # raw[p]])

\* _generate_caption_lookup, lines 358-371: the answers are merged in the
\* order the service returned them; acc = [captions, cache, changed].
RECURSIVE MergeAnswers(_, _, _, _, _, _)
MergeAnswers(targets, im, order, raw, i, acc) ==
    IF i > Len(order) THEN acc
    ELSE LET p       == order[i]
             k       == CHOOSE k \in 1 .. Len(targets) : targets[k].resolved = p
             key     == CacheKey(im[p])
             cleaned == Strip(raw[p])
         IN IF raw[p] = Omitted \/ cleaned = ""
            THEN MergeAnswers(targets, im, order, raw, i + 1, acc)
            ELSE MergeAnswers(targets, im, order, raw, i + 1,
                     [captions |-> [acc.captions EXCEPT ![k] = cleaned],
                      cache    |-> [acc.cache EXCEPT ![key] = cleaned],
                      changed  |-> acc.changed \/ acc.cache[key] # cleaned])

\* Mutant of FallbackCaption: the last accumulated alt text is taken.
FallbackCaptionLastAlt(bucket) ==
    LET named == SelectSeq(bucket.alts, LAMBDA a : Strip(a) # "")
    IN IF bucket.alts # <<>> THEN bucket.alts[Len(bucket.alts)]
       ELSE IF bucket.resolved # None THEN Stem(bucket.resolved)
       ELSE IF bucket.raw_path # "" THEN Stem(bucket.raw_path)
       ELSE Placeholder

\* _fallback_caption, lines 378-391
FallbackCaption(bucket) ==
    LET named == SelectSeq(bucket.alts, LAMBDA a : Strip(a) # "")
    IN IF named # <<>> THEN Strip(named[1])
       ELSE IF bucket.resolved # None THEN Stem(bucket.resolved)
       ELSE IF bucket.raw_path # "" THEN Stem(bucket.raw_path)
       ELSE Placeholder

\* rewrite_markdown_with_captions, lines 101-103
BucketCaption(bucket, looked) ==
    LET caption == IF looked \notin {None, ""} THEN looked
                   ELSE FallbackCaption(bucket)
    IN IF Strip(caption) # "" THEN caption ELSE Placeholder

Paths(ts) == [k \in 1 .. Len(ts) |-> ts[k].resolved]

Orders(ps) ==
    {o \in [1 .. Len(ps) -> Range(ps)] : \A i, j \in 1 .. Len(ps) : o[i] = o[j] => i = j}

\* The requests put to the service for the targets asked, in pass n.
Requests(n, asked, im) ==
    [k \in 1 .. Len(asked) |->
        [pass |-> n, path |-> asked[k].resolved, content |-> im[asked[k].resolved]]]

\* Mutant of ClearedFile: the clear flag is ignored.
ClearedFileKept(f, file0, unlinked) == file0

\* _generate_caption_lookup, lines 319-325: the cache file and the loaded
\* cache after the clear step. The file is unlinked when the flag is set and
\* the file exists; when the unlink raises OSError (unlinked = FALSE) the
\* file and the loaded entries stay.
ClearedFile(f, file0, unlinked) ==
    IF f.clear_cache /\ file0.exists /\ unlinked
    THEN [exists |-> FALSE, corrupt |-> FALSE, map |-> EmptyCache]
    ELSE file0

\* _generate_caption_lookup: the targets the service is asked about under
\* flags f: all existing ones (line 315) when the cache is disabled, the
\* cache misses (lines 330-345) otherwise; none without an API key.
AskedTargets(f, targets, im, file0, unlinked) ==
    LET file == ClearedFile(f, file0, unlinked)
    IN IF ~f.api_key THEN <<>>
       ELSE IF f.disable_cache THEN Existing(targets, im)
       ELSE ToRequest(targets, im, LoadCaptionCache(file))

\* _generate_caption_lookup, lines 273-375, in pass n with flags f over
\* the cache file, given whether the unlink of the clear step went through
\* (unlinked), the service's answer (raw, listed in order) and whether the
\* cache file could be written (saved): the captions found, the cache file
\* left and the requests made; and, for the record, whether the cache was
\* consulted, the file it was consulted from (seen) and the number of calls
\* of _save_caption_cache (writes).
GenerateCaptionLookup(n, f, targets, im, file0, unlinked, raw, order, saved) ==
    LET existing == Existing(targets, im)
        nothing  == [k \in 1 .. Len(targets) |-> None]
        file     == ClearedFile(f, file0, unlinked)
        loaded   == LoadCaptionCache(file)
        hits     == HitLookup(targets, im, loaded)
        asked    == AskedTargets(f, targets, im, file0, unlinked)
    IN IF existing = <<>>
       THEN [captions |-> nothing, cache |-> file0, asked |-> <<>>,
             consulted |-> FALSE, seen |-> file0, writes |-> 0]
       ELSE IF f.disable_cache
       THEN IF ~f.api_key
            THEN [captions |-> nothing, cache |-> file0, asked |-> <<>>,
                  consulted |-> FALSE, seen |-> file0, writes |-> 0]
            ELSE [captions |-> UncachedLookup(targets, im, raw),
                  cache    |-> file0,
                  asked    |-> Requests(n, existing, im),
                  consulted |-> FALSE, seen |-> file0, writes |-> 0]
       ELSE IF asked = <<>>
       THEN [captions |-> hits, cache |-> file, asked |-> <<>>,
             consulted |-> TRUE, seen |-> file, writes |-> 0]
       ELSE LET merged == MergeAnswers(targets, im, order, raw, 1,
                              [captions |-> hits, cache |-> loaded, changed |-> FALSE])
            IN [captions |-> merged.captions,
                cache    |-> IF merged.changed /\ saved
                             THEN [exists |-> TRUE, corrupt |-> FALSE,
                                   map |-> merged.cache]
                             ELSE file,
                asked    |-> Requests(n, asked, im),
                consulted |-> TRUE, seen |-> file,
                writes   |-> IF merged.changed THEN 1 ELSE 0]

\* rewrite_markdown_with_captions, lines 105-117: the text put at every tag
Replacements(entries, ids, targets, caption) ==
    [i \in 1 .. Len(entries) |->
        LET k == CHOOSE k \in 1 .. Len(targets) : targets[k].id = ids[i]
        IN IF Strip(caption[k]) # "" THEN Strip(caption[k]) ELSE entries[i].fallback]

\* rewrite_markdown_with_captions, lines 123-133
MediaAssets(targets, caption) ==
    [k \in 1 .. Len(targets) |->
        [id          |-> targets[k].id,
         source_file |-> IF targets[k].resolved # None THEN targets[k].resolved
                         ELSE targets[k].raw_path,
         caption     |-> caption[k]]]

\* The images and their contents (one missing, two alike, two different)
\* and the calls' arguments: cached with a cold or a warm cache file,
\* cached and cleared, no API key, cache disabled, with or without the
\* clear flag.
ImageTrees ==
    {[p \in ImagePaths |-> IF p = "/m/a.png" THEN t[1] ELSE t[2]] :
        t \in {<<0, 1>>, <<1, 1>>, <<1, 2>>}}

WarmCache == [exists |-> TRUE, corrupt |-> FALSE,
              map |-> [EmptyCache EXCEPT ![CacheKey(1)] = "c0"]]
ColdCache == [exists |-> FALSE, corrupt |-> FALSE, map |-> EmptyCache]

\* A cache file that cannot be read or does not parse; map is what it held
\* when it last could.
UnreadableCache == [WarmCache EXCEPT !.corrupt = TRUE]

RewriteFlags ==
    {[disable_cache |-> FALSE, clear_cache |-> FALSE, api_key |-> TRUE],
     [disable_cache |-> FALSE, clear_cache |-> TRUE,  api_key |-> TRUE],
     [disable_cache |-> FALSE, clear_cache |-> FALSE, api_key |-> FALSE],
     [disable_cache |-> FALSE, clear_cache |-> TRUE,  api_key |-> FALSE],
     [disable_cache |-> TRUE,  clear_cache |-> FALSE, api_key |-> TRUE],
     [disable_cache |-> TRUE,  clear_cache |-> TRUE,  api_key |-> TRUE]}

InitRewrite ==
    \E tree \in ImageTrees, f \in RewriteFlags,
       file \in {ColdCache, WarmCache, UnreadableCache} :
        /\ mode = "rewrite"
        /\ img = tree
        /\ cache = file
        /\ sent = <<>>
        /\ rw = [tags |-> <<>>, entries |-> <<>>, targets |-> <<>>, ids |-> <<>>,
                 captions |-> <<>>, out |-> <<>>, assets |-> <<>>, pass |-> 1,
                 before |-> ColdCache, unlinked |-> TRUE,
                 consulted |-> FALSE, seen |-> ColdCache, answered |-> <<>>,
                 writes |-> 0,
                 disable_cache |-> f.disable_cache, clear_cache |-> f.clear_cache,
                 api_key |-> f.api_key]
        /\ pc = "rw_call"
        /\ disk = NoFiles
        /\ disk0 = NoFiles
        /\ prior = <<>>
        /\ chunking = TRUE
        /\ now = MaxT0
        /\ options = [t |-> "none", v |-> 0]
        /\ cv = NoCv
        /\ NoRunYet

\* rewrite_markdown_with_captions, lines 29-133, on one document: the scan,
\* the entries, the targets, the captions, the substitution; a document
\* without image tags is written out at once.
RewriteMarkdownWithCaptions ==
    /\ mode = "rewrite"
    /\ pc = "rw_call"
    /\ pc' = "rw_done"
    /\ \E doc \in Documents :
       \E entries \in {[i \in 1 .. Len(doc) |-> EntryOf(doc[i], img)]} :
       \E grouped \in {GroupTargets(rw.pass, entries, 1, [targets |-> <<>>, ids |-> <<>>])} :
       \E unlinked \in IF rw.clear_cache /\ ~rw.disable_cache /\ cache.exists
                            /\ Existing(grouped.targets, img) # <<>>
                         THEN BOOLEAN ELSE {TRUE} :
       \E asked \in {Paths(AskedTargets(rw, grouped.targets, img, cache, unlinked))} :
         IF doc = <<>>
         THEN /\ rw' = rw
              /\ UNCHANGED <<cache, sent>>
         ELSE \E raw \in [Range(asked) -> ServiceTexts] :
              \* the order of the answers matters to the merge only where two
              \* asked files hold the same bytes, and the outcome of the write
              \* only where a caption is there to be saved
              \E order \in IF \A i, j \in 1 .. Len(asked) :
                                   img[asked[i]] = img[asked[j]] => i = j
                             THEN {asked} ELSE Orders(asked),
                 saved \in IF rw.disable_cache
                              \/ \A p \in Range(asked) :
                                    raw[p] = Omitted \/ Strip(raw[p]) = ""
                           THEN {TRUE} ELSE BOOLEAN :
              \E o \in {GenerateCaptionLookup(rw.pass, rw, grouped.targets, img,
                                              cache, unlinked, raw, order, saved)} :
              \E caption \in {[k \in 1 .. Len(grouped.targets) |->
                                 BucketCaption(grouped.targets[k], o.captions[k])]} :
                /\ rw' = [rw EXCEPT
                            !.tags = doc, !.entries = entries,
                            !.targets = grouped.targets, !.ids = grouped.ids,
                            !.captions = o.captions,
                            !.before = cache, !.unlinked = unlinked,
                            !.consulted = o.consulted, !.seen = o.seen,
                            !.answered = [q \in Range(asked) |->
                                             IF raw[q] = Omitted \/ Strip(raw[q]) = ""
                                             THEN None ELSE Strip(raw[q])],
                            !.writes = o.writes,
                            !.out = Replacements(entries, grouped.ids,
                                                 grouped.targets, caption),
                            !.assets = MediaAssets(grouped.targets, caption)]
                /\ cache' = o.cache
                /\ sent' = sent \o o.asked
    /\ UNCHANGED img
    /\ UNCHANGED <<mode, disk, now, options, cv, pipeVars, histVars>>

\* _render_markdown_and_assets, lines 643-650, called for the next source:
\* the next pass starts from the cache file the last one left.
NextPass ==
    /\ mode = "rewrite"
    /\ pc = "rw_done"
    /\ rw.pass < MaxPasses
    /\ pc' = "rw_call"
    /\ rw' = [rw EXCEPT !.pass = @ + 1, !.tags = <<>>, !.entries = <<>>,
                        !.targets = <<>>, !.ids = <<>>, !.captions = <<>>,
                        !.out = <<>>, !.assets = <<>>,
                        !.before = ColdCache, !.unlinked = TRUE,
                        !.consulted = FALSE, !.seen = ColdCache, !.answered = <<>>,
                        !.writes = 0]
    /\ UNCHANGED <<img, cache, sent>>
    /\ UNCHANGED <<mode, disk, now, options, cv, pipeVars, histVars>>

NextRewrite ==
    \/ RewriteMarkdownWithCaptions
    \/ NextPass

SpecRewrite == InitRewrite /\ [][NextRewrite]_vars

\* ------------------------------------ markdown_rewriter.py, the text level
\* A markdown text is a sequence of characters; positions are counted from
\* 0 as in the source, so the character at position i is text[i + 1].
CAPTION_START_MARKER == "<!---MEDIA CAPTION STARTS --->"
CAPTION_END_MARKER == "<!---MEDIA CAPTION ENDS --->"
PlaceholderText == <<"[image]">>

At(text, i) == text[i + 1]

\* text[a:b] of Python for 0 <= a
Slice(text, a, b) == SubSeq(text, a + 1, Min(b, Len(text)))

\* str.isspace on one character
IsSpace(c) == c \in {" ", "\n"}

RECURSIVE LStripText(_)
LStripText(t) ==
    IF t # <<>> /\ IsSpace(Head(t)) THEN LStripText(Tail(t)) ELSE t

\* str.rstrip
RECURSIVE RStripText(_)
RStripText(t) ==
    IF t # <<>> /\ IsSpace(t[Len(t)]) THEN RStripText(SubSeq(t, 1, Len(t) - 1)) ELSE t

\* str.strip
StripText(t) == LStripText(RStripText(t))

\* text.find("![", from): the first position not before from, or -1
RECURSIVE FindBang(_, _)
FindBang(text, from) ==
    IF from + 1 >= Len(text) THEN -1
    ELSE IF At(text, from) = "!" /\ At(text, from + 1) = "[" THEN from
    ELSE FindBang(text, from + 1)

\* Mutant of FindClosingBracket: a backslash escapes nothing.
RECURSIVE FindClosingBracketAnyBracket(_, _)
FindClosingBracketAnyBracket(text, i) ==
    IF i >= Len(text) THEN -1
    ELSE IF At(text, i) = "]" THEN i
    ELSE FindClosingBracketAnyBracket(text, i + 1)

\* _find_closing_bracket
RECURSIVE FindClosingBracket(_, _)
FindClosingBracket(text, i) ==
    IF i >= Len(text) THEN -1
    ELSE IF At(text, i) = "\\" THEN FindClosingBracket(text, i + 2)
    ELSE IF At(text, i) = "]" THEN i
    ELSE FindClosingBracket(text, i + 1)

\* Mutant of ParenFrom: nesting is not counted, the first ")" closes.
RECURSIVE ParenFromFirst(_, _, _)
ParenFromFirst(text, i, depth) ==
    IF i >= Len(text) THEN -1
    ELSE IF At(text, i) = "\\" THEN ParenFromFirst(text, i + 2, depth)
    ELSE IF At(text, i) = ")" THEN i
    ELSE ParenFromFirst(text, i + 1, depth)

\* The loop of _find_matching_paren at position i and nesting depth.
RECURSIVE ParenFrom(_, _, _)
ParenFrom(text, i, depth) ==
    IF i >= Len(text) THEN -1
    ELSE IF At(text, i) = "\\" THEN ParenFrom(text, i + 2, depth)
    ELSE IF At(text, i) = "(" THEN ParenFrom(text, i + 1, depth + 1)
    ELSE IF At(text, i) = ")"
         THEN IF depth = 1 THEN i ELSE ParenFrom(text, i + 1, depth - 1)
    ELSE ParenFrom(text, i + 1, depth)

\* _find_matching_paren
FindMatchingParen(text, start) == ParenFrom(text, start, 1)

\* The loop of _extract_destination over the stripped text.
RECURSIVE DestinationFrom(_, _, _)
DestinationFrom(t, escape, buffer) ==
    IF t = <<>> THEN buffer
    ELSE IF escape THEN DestinationFrom(Tail(t), FALSE, Append(buffer, Head(t)))
    ELSE IF Head(t) = "\\" THEN DestinationFrom(Tail(t), TRUE, buffer)
    ELSE IF IsSpace(Head(t)) THEN buffer
    ELSE DestinationFrom(Tail(t), FALSE, Append(buffer, Head(t)))

\* cleaned.find(">") counted from the start of t, or -1
RECURSIVE FindGt(_, _)
FindGt(t, i) ==
    IF i >= Len(t) THEN -1
    ELSE IF At(t, i) = ">" THEN i ELSE FindGt(t, i + 1)

\* _extract_destination
ExtractDestination(raw) ==
    LET cleaned == StripText(raw)
    IN IF cleaned = <<>> THEN <<>>
       ELSE IF Head(cleaned) = "<" /\ FindGt(cleaned, 0) # -1
       THEN Slice(cleaned, 1, FindGt(cleaned, 0))
       ELSE DestinationFrom(cleaned, FALSE, <<>>)

\* Mutant of TagsFrom: the scan ends at the first malformed span.
RECURSIVE TagsFromGivingUp(_, _, _)
TagsFromGivingUp(text, from, tags) ==
    IF from >= Len(text) THEN tags
    ELSE LET start == FindBang(text, from)
         IN IF start = -1 THEN tags
            ELSE LET alt_end == FindClosingBracket(text, start + 2)
                 IN IF alt_end = -1 THEN tags
                    ELSE IF alt_end + 1 >= Len(text) \/ At(text, alt_end + 1) # "("
                    THEN tags
                    ELSE LET dest_end == FindMatchingParen(text, alt_end + 2)
                         IN IF dest_end = -1
                            THEN tags
                            ELSE TagsFromGivingUp(text, dest_end + 1,
                                    Append(tags,
                                        [start |-> start,
                                         end |-> dest_end + 1,
                                         alt_text |-> Slice(text, start + 2, alt_end),
                                         destination |->
                                            ExtractDestination(
                                                Slice(text, alt_end + 2, dest_end))]))

\* The loop of _find_image_tags from position idx = from.
RECURSIVE TagsFrom(_, _, _)
TagsFrom(text, from, tags) ==
    IF from >= Len(text) THEN tags
    ELSE LET start == FindBang(text, from)
         IN IF start = -1 THEN tags
            ELSE LET alt_end == FindClosingBracket(text, start + 2)
                 IN IF alt_end = -1 THEN tags
                    ELSE IF alt_end + 1 >= Len(text) \/ At(text, alt_end + 1) # "("
                    THEN TagsFrom(text, alt_end + 1, tags)
                    ELSE LET dest_end == FindMatchingParen(text, alt_end + 2)
                         IN IF dest_end = -1
                            THEN TagsFrom(text, alt_end + 1, tags)
                            ELSE TagsFrom(text, dest_end + 1,
                                    Append(tags,
                                        [start |-> start,
                                         end |-> dest_end + 1,
                                         alt_text |-> Slice(text, start + 2, alt_end),
                                         destination |->
                                            ExtractDestination(
                                                Slice(text, alt_end + 2, dest_end))]))

\* _find_image_tags
FindImageTags(text) == TagsFrom(text, 0, <<>>)

\* Mutant of Turn: after a "]" that no "(" follows the scan goes on from
\* the "![" it started at.
TurnStaying(text, from) ==
    LET start == FindBang(text, from)
    IN IF start = -1 THEN [idx |-> -1, found |-> <<>>]
       ELSE LET alt_end == FindClosingBracket(text, start + 2)
            IN IF alt_end = -1 THEN [idx |-> -1, found |-> <<>>]
               ELSE IF alt_end + 1 >= Len(text) \/ At(text, alt_end + 1) # "("
               THEN [idx |-> start, found |-> <<>>]
               ELSE LET dest_end == FindMatchingParen(text, alt_end + 2)
                    IN IF dest_end = -1
                       THEN [idx |-> alt_end + 1, found |-> <<>>]
                       ELSE [idx |-> dest_end + 1,
                             found |-> <<[start |-> start, end |-> dest_end + 1]>>]

\* One turn of the while loop of _find_image_tags entered with idx = from:
\* the idx it leaves (-1 for a break) and the span of the tag it appends.
Turn(text, from) ==
    LET start == FindBang(text, from)
    IN IF start = -1 THEN [idx |-> -1, found |-> <<>>]
       ELSE LET alt_end == FindClosingBracket(text, start + 2)
            IN IF alt_end = -1 THEN [idx |-> -1, found |-> <<>>]
               ELSE IF alt_end + 1 >= Len(text) \/ At(text, alt_end + 1) # "("
               THEN [idx |-> alt_end + 1, found |-> <<>>]
               ELSE LET dest_end == FindMatchingParen(text, alt_end + 2)
                    IN IF dest_end = -1
                       THEN [idx |-> alt_end + 1, found |-> <<>>]
                       ELSE [idx |-> dest_end + 1,
                             found |-> <<[start |-> start, end |-> dest_end + 1]>>]

\* str.splitlines for texts whose only line break is "\n"
RECURSIVE SplitLines(_)
SplitLines(t) ==
    IF t = <<>> THEN <<>>
    ELSE IF \E p \in 1 .. Len(t) : t[p] = "\n"
    THEN LET p == CHOOSE q \in 1 .. Len(t) :
                    t[q] = "\n" /\ \A r \in 1 .. q - 1 : t[r] # "\n"
         IN <<SubSeq(t, 1, p - 1)>> \o SplitLines(SubSeq(t, p + 1, Len(t)))
    ELSE <<t>>

\* "\n".join(lines)
RECURSIVE JoinLines(_)
JoinLines(lines) ==
    IF lines = <<>> THEN <<>>
    ELSE IF Len(lines) = 1 THEN lines[1]
    ELSE lines[1] \o <<"\n">> \o JoinLines(Tail(lines))

\* _normalize_markdown
NormalizeMarkdown(text) ==
    LET lines == SplitLines(text)
        normalized == JoinLines([i \in 1 .. Len(lines) |-> RStripText(lines[i])])
    IN IF lines # <<>> THEN normalized \o <<"\n">> ELSE normalized

\* name.rfind(c) as a position from 0, or -1
RECURSIVE RFind(_, _)
RFind(t, c) ==
    IF t = <<>> THEN -1
    ELSE IF t[Len(t)] = c THEN Len(t) - 1
    ELSE RFind(SubSeq(t, 1, Len(t) - 1), c)

\* Path(p).stem: the last component without its last suffix
StemText(p) ==
    LET name == Slice(p, RFind(p, "/") + 1, Len(p))
        dot  == RFind(name, ".")
    IN IF 0 < dot /\ dot < Len(name) - 1 THEN Slice(name, 0, dot) ELSE name

\* The one image file of the text-level model and its reference.
ImageRef == <<"b", ".", "p">>
ImageFile == <<"/", "m", "/", "b", ".", "p">>
NotResolved == <<"None">>

\* _resolve_image_path when the directory of the markdown holds at most
\* the file b.p: found tells whether it does.
ResolveText(dest, found) ==
    IF found /\ StripText(dest) = ImageRef THEN ImageFile ELSE NotResolved

\* lines 46-62: the entry of one tag
EntryOfTag(tag, found) ==
    LET alt == StripText(tag.alt_text)
        stem == StemText(tag.destination)
    IN [span     |-> <<tag.start, tag.end>>,
        alt      |-> alt,
        raw_path |-> tag.destination,
        resolved |-> ResolveText(tag.destination, found),
        fallback |-> IF alt # <<>> THEN alt
                     ELSE IF stem # <<>> THEN stem ELSE PlaceholderText]

\* _make_target_key
TargetKeyText(e) == IF e.resolved # NotResolved THEN e.resolved ELSE e.raw_path

\* lines 64-82: the buckets in the order of first appearance; acc holds
\* targets and, per entry, the position of its bucket.
RECURSIVE GroupText(_, _, _)
GroupText(entries, i, acc) ==
    IF i > Len(entries) THEN acc
    ELSE LET e == entries[i]
             key == TargetKeyText(e)
             hits == {k \in 1 .. Len(acc.targets) : acc.targets[k].key = key}
         IN IF hits = {}
            THEN GroupText(entries, i + 1,
                    [targets |-> Append(acc.targets,
                                    [key |-> key, resolved |-> e.resolved,
                                     raw_path |-> e.raw_path, alts |-> <<e.alt>>]),
                     of |-> Append(acc.of, Len(acc.targets) + 1)])
            ELSE LET k == CHOOSE x \in hits : TRUE
                 IN GroupText(entries, i + 1,
                        [targets |-> [acc.targets EXCEPT ![k].alts = Append(@, e.alt)],
                         of |-> Append(acc.of, k)])

\* _fallback_caption
FallbackCaptionText(bucket) ==
    LET named == SelectSeq(bucket.alts, LAMBDA a : StripText(a) # <<>>)
    IN IF named # <<>> THEN StripText(named[1])
       ELSE IF bucket.resolved # NotResolved THEN StemText(bucket.resolved)
       ELSE IF bucket.raw_path # <<>>
       THEN IF StemText(bucket.raw_path) # <<>> THEN StemText(bucket.raw_path)
            ELSE bucket.raw_path
       ELSE PlaceholderText

\* What _generate_caption_lookup may hold for the asset of the image file:
\* nothing, a blank text or a caption with spaces around it.
NoAnswer == <<>>
Answers == {NoAnswer, <<" ">>, <<" ", "c", " ">>}

\* Mutant of BucketCaptionText: a blank caption is kept as it is.
BucketCaptionTextUnguarded(bucket, answer) ==
    IF bucket.resolved # NotResolved /\ answer # NoAnswer
    THEN answer ELSE FallbackCaptionText(bucket)

\* lines 98-100: the caption of a bucket
BucketCaptionText(bucket, answer) ==
    LET caption == IF bucket.resolved # NotResolved /\ answer # NoAnswer
                   THEN answer ELSE FallbackCaptionText(bucket)
    IN IF StripText(caption) # <<>> THEN caption ELSE PlaceholderText

\* lines 110-113: what stands for the tag of entry e
Wrapped(e, caption) ==
    LET replacement == IF StripText(caption) # <<>> THEN caption ELSE e.fallback
        core == IF replacement # <<>> THEN StripText(replacement) ELSE e.fallback
    IN <<CAPTION_START_MARKER, " ">> \o core \o <<" ", CAPTION_END_MARKER>>

\* Mutant of PartsFrom: the text after the last tag is not appended.
RECURSIVE PartsWithoutTail(_, _, _, _, _)
PartsWithoutTail(raw, entries, captions, i, cursor) ==
    IF i > Len(entries) THEN <<>>
    ELSE Slice(raw, cursor, entries[i].span[1])
            \o Wrapped(entries[i], captions[i])
            \o PartsWithoutTail(raw, entries, captions, i + 1, entries[i].span[2])

\* lines 103-117: the parts from entry i on, cursor being the end of the
\* last span; captions[i] is the caption of the bucket of entry i.
RECURSIVE PartsFrom(_, _, _, _, _)
PartsFrom(raw, entries, captions, i, cursor) ==
    IF i > Len(entries) THEN Slice(raw, cursor, Len(raw))
    ELSE Slice(raw, cursor, entries[i].span[1])
            \o Wrapped(entries[i], captions[i])
            \o PartsFrom(raw, entries, captions, i + 1, entries[i].span[2])

\* sub stands somewhere in t
Occurs(sub, t) ==
    \E p \in 0 .. Len(t) - Len(sub) : SubSeq(t, p + 1, p + Len(sub)) = sub

\* The texts of the model: up to MaxParts fragments in a row, a fragment
\* being a complete image tag or a piece of markdown syntax.
Fragments ==
    {<<"!", "[", "]", "(", "b", ".", "p", ")">>, <<"!", "[">>, <<"]", "(">>,
     <<"]">>, <<"(", ")">>, <<")">>, <<"\\">>, <<"\\", "]">>, <<" ">>, <<"\n">>}

RECURSIVE Flatten(_)
Flatten(fs) == IF fs = <<>> THEN <<>> ELSE Head(fs) \o Flatten(Tail(fs))

InitText ==
    \E k \in 0 .. MaxParts :
    \E fs \in [1 .. k -> Fragments], found \in BOOLEAN :
    \E text \in {Flatten(fs)} :
        /\ found => Occurs(ImageRef, text)
        /\ mode = "text"
        /\ pc = "tx_call"
        /\ rw = [raw |-> text, found |-> found, tags |-> <<>>, answer |-> NoAnswer,
                 captions |-> <<>>, processed |-> <<>>, written |-> <<>>,
                 assets |-> 0]
        /\ img = [p \in {"/m/a.png", "/m/b.png"} |-> 0]
        /\ cache = [exists |-> FALSE, map |-> <<>>]
        /\ sent = <<>>
        /\ disk = NoFiles
        /\ disk0 = NoFiles
        /\ prior = <<>>
        /\ chunking = TRUE
        /\ now = MaxT0
        /\ options = [t |-> "none", v |-> 0]
        /\ cv = NoCv
        /\ NoRunYet

\* rewrite_markdown_with_captions, lines 29-133, on the characters of one
\* markdown file: the scan, the entries, the buckets, the captions, the
\* substitution, the normalisation and the write.
RewriteText ==
    /\ mode = "text"
    /\ pc = "tx_call"
    /\ pc' = "tx_done"
    /\ \E tags \in {FindImageTags(rw.raw)} :
         IF tags = <<>>
         THEN rw' = [rw EXCEPT !.processed = rw.raw,
                               !.written = NormalizeMarkdown(rw.raw)]
         ELSE \E entries \in {[i \in 1 .. Len(tags) |-> EntryOfTag(tags[i], rw.found)]} :
              \E grouped \in {GroupText(entries, 1, [targets |-> <<>>, of |-> <<>>])} :
              \E answer \in IF rw.found
                               /\ \E i \in 1 .. Len(entries) :
                                     entries[i].resolved # NotResolved
                            THEN Answers ELSE {NoAnswer} :
              \E captions \in {[i \in 1 .. Len(entries) |->
                                  BucketCaptionText(grouped.targets[grouped.of[i]],
                                                    answer)]} :
              \E processed \in {PartsFrom(rw.raw, entries, captions, 1, 0)} :
                rw' = [rw EXCEPT !.tags = tags, !.answer = answer,
                                 !.captions = captions,
                                 !.processed = processed,
                                 !.written = NormalizeMarkdown(processed),
                                 !.assets = Len(grouped.targets)]
    /\ UNCHANGED <<img, cache, sent>>
    /\ UNCHANGED <<mode, disk, now, options, cv, pipeVars, histVars>>

NextText == RewriteText

SpecText == InitText /\ [][NextText]_vars

\* ================================================= chunk record metadata
\* The metadata of the two kinds of chunk record a manifest holds: the one
\* _chunk_prepared_source builds from what the chunker yields, and the one
\* _load_existing_chunk_map builds from a line of CHUNKS.jsonl.

\* A key the mapping does not hold.
Absent == "absent"

\* Root-relative paths of a source: at the root, and one directory down.
RelPaths == {"a.pdf", "sub/a.pdf"}

\* Path(source_path).name
FileName(p) == IF p = "" THEN "" ELSE "a.pdf"

\* relpath_hash(input_dir, source_rel): the identity hash of a root-relative
\* path, one value per path.
RelpathHash(rel) == IF rel = "a.pdf" THEN "h1" ELSE "h2"

\* PreparedSource.source_rel and .source_hash of a unit, lines 162-163.
PreparedSources == {[source_rel |-> r, source_hash |-> RelpathHash(r)] : r \in RelPaths}

\* What the chunker may put under the two keys of a yielded metadata mapping:
\* nothing, or a value of its own.
YieldedMetadata == [source_rel : {Absent, "x.md"}, source_hash : {Absent, "h9"}]

SetDefaultOverwriting(m, k, v) == [m EXCEPT ![k] = v]

\* dict.setdefault(k, v), lines 355-356.
SetDefault(m, k, v) == IF m[k] = Absent THEN [m EXCEPT ![k] = v] ELSE m

\* The records of _chunk_prepared_source, lines 344-365, as far as their
\* metadata goes.
ChunkRecordMetadata(prep, yielded) ==
    [i \in 1 .. Len(yielded) |->
        [key      |-> prep.source_hash,
         metadata |-> SetDefault(SetDefault(yielded[i], "source_rel", prep.source_rel),
                                 "source_hash", prep.source_hash)]]

\* A line of CHUNKS.jsonl: each field present or falsy (missing, null or
\* empty), and where the chunk's file is found.
JsonlLines ==
    [id          : {"", "chnk_h1_0"},
     source_path : {"", "/in/a.pdf", "/in/sub/a.pdf"},
     source_rel  : {"", "a.pdf", "sub/a.pdf"},
     source_hash : {"", "h1", "h2"},
     file        : {"chunk", "alt", "none"}]

\* One turn of the loop of _load_existing_chunk_map, lines 434-465: the records
\* (none or one) the line adds, with the key it is filed under.
LoadLine(r) ==
    LET source_hash == IF r.source_hash = "" /\ r.source_rel # ""
                       THEN RelpathHash(r.source_rel)
                       ELSE r.source_hash
    IN  IF r.id = "" \/ r.source_path = "" \/ source_hash = "" \/ r.file = "none"
        THEN <<>>
        ELSE <<[key      |-> source_hash,
                metadata |-> [source_rel  |-> IF r.source_rel # "" THEN r.source_rel
                                              ELSE FileName(r.source_path),
                              source_hash |-> source_hash]]>>

InitMeta ==
    \E line \in JsonlLines, prep \in PreparedSources :
    \E n \in 0 .. MaxChunks : \E yielded \in [1 .. n -> YieldedMetadata] :
        /\ mode = "meta"
        /\ pc = "mt_call"
        /\ rw = [line |-> line, prepared |-> prep, yielded |-> yielded, recs |-> <<>>]
        /\ img = [p \in {"/m/a.png", "/m/b.png"} |-> 0]
        /\ cache = [exists |-> FALSE, map |-> <<>>]
        /\ sent = <<>>
        /\ disk = NoFiles
        /\ disk0 = NoFiles
        /\ prior = <<>>
        /\ chunking = TRUE
        /\ now = MaxT0
        /\ options = [t |-> "none", v |-> 0]
        /\ cv = NoCv
        /\ NoRunYet

\* _load_existing_chunk_map on the line.
LoadMetadata ==
    /\ mode = "meta"
    /\ pc = "mt_call"
    /\ pc' = "mt_loaded"
    /\ rw' = [rw EXCEPT !.recs = LoadLine(rw.line)]
    /\ UNCHANGED <<mode, disk, now, options, cv, pipeVars, histVars, img, cache, sent>>

\* _chunk_prepared_source on the prepared source.
ChunkMetadata ==
    /\ mode = "meta"
    /\ pc = "mt_call"
    /\ pc' = "mt_chunked"
    /\ rw' = [rw EXCEPT !.recs = ChunkRecordMetadata(rw.prepared, rw.yielded)]
    /\ UNCHANGED <<mode, disk, now, options, cv, pipeVars, histVars, img, cache, sent>>

NextMeta == LoadMetadata \/ ChunkMetadata

SpecMeta == InitMeta /\ [][NextMeta]_vars

\* ====================================================== source discovery
\* _iter_source_files and _deduplicate_paths on a small tree under the input
\* root.  A path is the sequence of its segments below the root; a segment
\* is a number, and the numbers are in the order of the names:
\*   1 ".git"   2 "A.PDF"   3 "b.docx"   4 "c.txt"   5 "sub"
SegmentName(g) ==
    IF g = 1 THEN ".git" ELSE IF g = 2 THEN "A.PDF" ELSE IF g = 3 THEN "b.docx"
    ELSE IF g = 4 THEN "c.txt" ELSE "sub"

\* part.startswith(".")
StartsWithDot(name) == name = ".git"

\* Path.suffix of a final segment: from the last dot on, nothing for a name
\* without a dot or with a leading dot only.
Suffix(name) ==
    IF name = "A.PDF" THEN ".PDF" ELSE IF name = "b.docx" THEN ".docx"
    ELSE IF name = "c.txt" THEN ".txt" ELSE ""

LowerAsIs(x) == x

\* str.lower()
Lower(x) == IF x = ".PDF" THEN ".pdf" ELSE x

\* The places of the tree: five at the root, one below ".git", two below
\* "sub".
TreePaths == {<<1>>, <<2>>, <<3>>, <<4>>, <<5>>, <<1, 2>>, <<5, 2>>, <<5, 3>>}

\* The number of different files the paths of a tree resolve to.
MaxFiles == 2

\* What is at a place: nothing (0), a directory (-1), or a file, regular or
\* behind a symbolic link, known by the file path.resolve() leads to.
Trees ==
    {t \in [TreePaths -> -1 .. MaxFiles] :
        /\ t[<<2>>] # -1 /\ t[<<4>>] # -1 /\ t[<<5>>] < 1
        /\ \A q \in TreePaths : Len(q) = 2 => (t[q] # -1 /\ (t[q] # 0 => t[<<q[1]>>] = -1))}

\* The order of Path objects: segment by segment, a prefix first.
RECURSIVE PathLess(_, _)
PathLess(a, b) ==
    IF b = <<>> THEN FALSE
    ELSE IF a = <<>> THEN TRUE
    ELSE IF Head(a) # Head(b) THEN Head(a) < Head(b)
    ELSE PathLess(Tail(a), Tail(b))

\* sorted(input_dir.rglob("*")), line 492.
RECURSIVE SortedPaths(_)
SortedPaths(S) ==
    IF S = {} THEN <<>>
    ELSE LET m == CHOOSE x \in S : \A y \in S \ {x} : PathLess(x, y)
         IN <<m>> \o SortedPaths(S \ {m})

\* The body of the loop of _iter_source_files, lines 493-508: is the path
\* yielded?
Yielded(t, q) ==
    /\ t[q] > 0
    /\ ~ \E i \in 1 .. Len(q) : StartsWithDot(SegmentName(q[i]))
    /\ \/ Lower(Suffix(SegmentName(q[Len(q)]))) \in RETRY_ELIGIBLE_EXTENSIONS
       \/ Lower(Suffix(SegmentName(q[Len(q)]))) = ".pdf"

\* _iter_source_files, lines 491-508.
IterSourceFiles(t) ==
    SelectSeq(SortedPaths({q \in TreePaths : t[q] # 0}), LAMBDA q : Yielded(t, q))

\* _deduplicate_paths, lines 512-524: the loop, from the paths left, the
\* list unique and the set seen.
RECURSIVE DeduplicatePaths(_, _, _, _)
DeduplicatePaths(t, paths, unique, seenKeys) ==
    IF paths = <<>> THEN unique
    ELSE IF t[Head(paths)] \in seenKeys
         THEN DeduplicatePaths(t, Tail(paths), unique, seenKeys)
         ELSE DeduplicatePaths(t, Tail(paths), Append(unique, Head(paths)),
                               seenKeys \cup {t[Head(paths)]})

InitDiscover ==
    \E t \in Trees :
        /\ mode = "discover"
        /\ pc = "ds_call"
        /\ rw = [tree |-> t, uploads |-> <<>>]
        /\ img = [p \in {"/m/a.png", "/m/b.png"} |-> 0]
        /\ cache = [exists |-> FALSE, map |-> <<>>]
        /\ sent = <<>>
        /\ disk = NoFiles
        /\ disk0 = NoFiles
        /\ prior = <<>>
        /\ chunking = TRUE
        /\ now = MaxT0
        /\ options = [t |-> "none", v |-> 0]
        /\ cv = NoCv
        /\ NoRunYet

\* uploads = _deduplicate_paths(list(_iter_source_files(config.input_dir))),
\* line 118.
DiscoverUploads ==
    /\ mode = "discover"
    /\ pc = "ds_call"
    /\ pc' = "ds_done"
    /\ rw' = [rw EXCEPT !.uploads = DeduplicatePaths(rw.tree, IterSourceFiles(rw.tree),
                                                     <<>>, {})]
    /\ UNCHANGED <<mode, disk, now, options, cv, pipeVars, histVars, img, cache, sent>>

NextDiscover == DiscoverUploads

SpecDiscover == InitDiscover /\ [][NextDiscover]_vars

\* ===================================================== captions of tags
\* The captioning of the tags of one document, lines 46-117, on tags given
\* directly: what the scanner may hand over as alt text (none, a blank, a
\* word) and as destination (none, a blank as "< >" or an escaped space
\* leaves it, the image file, a bare "/").
TagAlts == {<<>>, <<" ">>, <<"a">>}
TagDestinations == {<<>>, <<" ">>, ImageRef, <<"/">>}

InitCaption ==
    \E k \in 1 .. MaxTags :
    \E alts \in [1 .. k -> TagAlts], dests \in [1 .. k -> TagDestinations],
       found \in BOOLEAN :
        /\ mode = "caption"
        /\ pc = "cp_call"
        /\ rw = [tags |-> [i \in 1 .. k |->
                             [start |-> 0, end |-> 0, alt_text |-> alts[i],
                              destination |-> dests[i]]],
                 found |-> found, answer |-> NoAnswer, buckets |-> <<>>,
                 captions |-> <<>>, sites |-> <<>>]
        /\ img = [p \in {"/m/a.png", "/m/b.png"} |-> 0]
        /\ cache = [exists |-> FALSE, map |-> <<>>]
        /\ sent = <<>>
        /\ disk = NoFiles
        /\ disk0 = NoFiles
        /\ prior = <<>>
        /\ chunking = TRUE
        /\ now = MaxT0
        /\ options = [t |-> "none", v |-> 0]
        /\ cv = NoCv
        /\ NoRunYet

\* rewrite_markdown_with_captions, lines 46-117: the entries, the buckets,
\* the final caption of every bucket and the wrapped text of every site.
CaptionTags ==
    /\ mode = "caption"
    /\ pc = "cp_call"
    /\ pc' = "cp_done"
    /\ \E entries \in {[i \in 1 .. Len(rw.tags) |-> EntryOfTag(rw.tags[i], rw.found)]} :
       \E grouped \in {GroupText(entries, 1, [targets |-> <<>>, of |-> <<>>])} :
       \E answer \in IF \E i \in 1 .. Len(entries) : entries[i].resolved # NotResolved
                     THEN Answers ELSE {NoAnswer} :
       \E captions \in {[k \in 1 .. Len(grouped.targets) |->
                           BucketCaptionText(grouped.targets[k], answer)]} :
         rw' = [rw EXCEPT !.answer = answer,
                          !.buckets = grouped.targets,
                          !.captions = captions,
                          !.sites = [i \in 1 .. Len(entries) |->
                                        Wrapped(entries[i], captions[grouped.of[i]])]]
    /\ UNCHANGED <<img, cache, sent>>
    /\ UNCHANGED <<mode, disk, now, options, cv, pipeVars, histVars>>

NextCaption == CaptionTags

SpecCaption == InitCaption /\ [][NextCaption]_vars

\* ============================================ overlapping rewrite passes
\* Two rewrite passes of separate runs, each with one image to caption,
\* over one media_captions.json, with the cache enabled and an API key.
\* The file is a sequence of tokens: "{", one token per entry, "}".
Passes == {1, 2}

Brace(b) == [t |-> b, k |-> 0, v |-> ""]

\* json.dumps(cache): the entries of the mapping between braces.
Dumps(map) ==
    LET held == SortedSeq({c \in Contents : map[CacheKey(c)] # ""})
    IN <<Brace("{")>>
          \o [i \in 1 .. Len(held) |->
                [t |-> "entry", k |-> held[i], v |-> map[CacheKey(held[i])]]]
          \o <<Brace("}")>>

\* json.loads(text) succeeds and gives a dict.
Parses(text) ==
    /\ Len(text) >= 2
    /\ text[1] = Brace("{") /\ text[Len(text)] = Brace("}")
    /\ \A i \in 2 .. Len(text) - 1 : text[i].t = "entry"

\* The mapping a text that parses holds.
Loads(text) ==
    [key \in CacheKeys |->
        IF \E i \in 2 .. Len(text) - 1 : text[i].k = key.digest
        THEN text[CHOOSE i \in 2 .. Len(text) - 1 : text[i].k = key.digest].v
        ELSE ""]

\* What _load_caption_cache is handed: the file as it is on disk.
FileAsRead(file) ==
    [exists  |-> file.exists,
     corrupt |-> ~Parses(file.text),
     map     |-> IF Parses(file.text) THEN Loads(file.text) ELSE EmptyCache]

\* The data of write_text reach the file opened earlier: they are written
\* from position 0 on, and what the file holds beyond them stays.
WriteText(old, new) == new \o SubSeq(old, Len(new) + 1, Len(old))

NoFile == [exists |-> FALSE, text |-> <<>>]
WarmFile == [exists |-> TRUE,
             text |-> Dumps([EmptyCache EXCEPT ![CacheKey(1)] = "c0"])]

InitRace ==
    \E file \in {NoFile, WarmFile}, held \in [Passes -> Contents] :
        /\ mode = "race"
        /\ pc = "race"
        /\ cache = file
        /\ rw = [pass |-> [p \in Passes |->
                             [at |-> "start", content |-> held[p],
                              mem |-> EmptyCache, caption |-> None]],
                 file0 |-> file, last |-> 0, wrote |-> {}]
        /\ img = [p \in {"/m/a.png", "/m/b.png"} |->
                    IF p = "/m/a.png" THEN held[1] ELSE held[2]]
        /\ sent = <<>>
        /\ disk = NoFiles
        /\ disk0 = NoFiles
        /\ prior = <<>>
        /\ chunking = TRUE
        /\ now = MaxT0
        /\ options = [t |-> "none", v |-> 0]
        /\ cv = NoCv
        /\ NoRunYet

\* _generate_caption_lookup, lines 319-345, in pass p: the cache is
\* loaded; a hit is the caption and the pass is done, a miss is requested.
RaceLoad(p) ==
    /\ mode = "race" /\ rw.pass[p].at = "start"
    /\ LET loaded == LoadCaptionCache(FileAsRead(cache))
           c      == rw.pass[p].content
       IN rw' = [rw EXCEPT !.pass[p] =
                    IF CacheHit(loaded, c)
                    THEN [@ EXCEPT !.at = "done", !.mem = loaded,
                                   !.caption = Strip(loaded[CacheKey(c)])]
                    ELSE [@ EXCEPT !.at = "asked", !.mem = loaded]]
    /\ UNCHANGED <<img, cache, sent>>
    /\ UNCHANGED <<mode, disk, now, options, pc, cv, pipeVars, histVars>>

\* lines 354-371: the service answers with a caption, which is put in the
\* captions and in the in-memory cache.
RaceAnswer(p) ==
    /\ mode = "race" /\ rw.pass[p].at = "asked"
    /\ \E text \in {" c1 ", "c2"} :
        LET c == rw.pass[p].content
        IN /\ rw' = [rw EXCEPT !.pass[p] =
                        [@ EXCEPT !.at = "save",
                                  !.mem = [@ EXCEPT ![CacheKey(c)] = Strip(text)],
                                  !.caption = Strip(text)]]
           /\ sent' = Append(sent, [pass |-> p, path |-> c, content |-> c])
    /\ UNCHANGED <<img, cache>>
    /\ UNCHANGED <<mode, disk, now, options, pc, cv, pipeVars, histVars>>

\* _save_caption_cache, line 409: write_text opens the file for writing,
\* which creates it or cuts it to length 0.
RaceOpen(p) ==
    /\ mode = "race" /\ rw.pass[p].at = "save"
    /\ cache' = [exists |-> TRUE, text |-> <<>>]
    /\ rw' = [rw EXCEPT !.pass[p].at = "opened"]
    /\ UNCHANGED <<img, sent>>
    /\ UNCHANGED <<mode, disk, now, options, pc, cv, pipeVars, histVars>>

\* _save_caption_cache, line 409: the dumped cache is written and the file
\* closed; the pass returns its captions.
RaceWrite(p) ==
    /\ mode = "race" /\ rw.pass[p].at = "opened"
    /\ cache' = [exists |-> TRUE,
                 text |-> WriteText(cache.text, Dumps(rw.pass[p].mem))]
    /\ rw' = [rw EXCEPT !.pass[p].at = "done", !.last = p,
                        !.wrote = @ \cup {p}]
    /\ UNCHANGED <<img, sent>>
    /\ UNCHANGED <<mode, disk, now, options, pc, cv, pipeVars, histVars>>

NextRace ==
    \E p \in Passes : RaceLoad(p) \/ RaceAnswer(p) \/ RaceOpen(p) \/ RaceWrite(p)

SpecRace == InitRace /\ [][NextRace]_vars


\* ======================================================= claims, Spec
Terminal == pc \in {"returned", "raised"}

FailedDocs == {h \in Hashes : dec[h].failed # "no"}

RecordSet(m) == Range(m.chunks)

\* C1: when a run has succeeded, its manifest has been persisted as the
\* prior manifest and nothing on disk has changed, the next run invokes
\* the converter, the extractor and the rewriter (the only caller of the
\* captioning service) zero times and returns the same chunk records.
C1_SecondRunIsIdle ==
    /\ (chunking /\ run >= 2 /\ pc # "start") => work = NoWork
    /\ (chunking /\ run >= 2 /\ pc = "returned")
          => RecordSet(manifest) = RecordSet(manifest1)

\* C2: whenever the extractor reads the PDF artifact of a reprocessed
\* source, that PDF is not older than the source's copy (a stale PDF has
\* been produced again first), and after a successful run the chain of
\* every reprocessed source is fresh from the copy down.
C2_StaleLinksRegenerated ==
    \A h \in Hashes :
        /\ dec[h].extracted => dec[h].xpdf >= dec[h].xcopy
        /\ (pc = "returned" /\ dec[h].d = "redo")
              => /\ disk.pdf[h] >= disk.copy[h]
                 /\ disk.md[h] >= disk.pdf[h]

\* C3: when the first failing link of a reprocessed source is its chunks
\* (copy, PDF and markdown are fresh), the extractor is not invoked for it
\* and its PDF and markdown are left as the run found them.
C3_UpstreamLeftAlone ==
    \A h \in Hashes :
        (dec[h].d = "redo" /\ dec[h].link = "chunks")
            => /\ ~dec[h].extracted
               /\ disk.md[h] = disk0.md[h]
               /\ disk.pdf[h] = disk0.pdf[h]

\* C4: a source with a missing copy, PDF, markdown or recorded chunk file
\* is never skipped as fresh.
C4_MissingIsStale ==
    \A h \in Hashes : dec[h].d = "skip" => ~dec[h].missing

\* C5: every source is attempted and every chunking unit is executed
\* whatever failed before; the run raises exactly when a document failed,
\* the raised error holds one message for every failed document, and a
\* raising run returns no manifest.
C5_FailuresAreCollected ==
    /\ pc = "raised" => (FailedDocs # {} /\ manifest = NoManifest)
    /\ pc = "returned" => FailedDocs = {}
    /\ Terminal => \A i \in 1 .. Len(uploads) : dec[uploads[i]].d # "none"
    /\ (Terminal /\ \A h \in Hashes : dec[h].failed # "process")
          => units = Range(prepared)
    /\ Terminal => /\ Len(errors) = Cardinality(FailedDocs)
                   /\ {errors[i].h : i \in 1 .. Len(errors)} = FailedDocs

\* C5 witness: a run raised after both chunking units failed.
C5_Witness ==
    /\ pc = "raised"
    /\ units = Hashes
    /\ \A h \in Hashes : dec[h].failed = "chunk"

RECURSIVE FirstWins(_, _)
FirstWins(s, acc) ==
    IF s = <<>> THEN acc
    ELSE FirstWins(Tail(s),
                   IF Head(s).id \in {acc[i].id : i \in 1 .. Len(acc)} THEN acc
                   ELSE Append(acc, Head(s)))

\* C6: the chunk identities of a returned manifest are pairwise distinct,
\* and of the records offered to it under one identity (recovered, fresh,
\* leftover) the first is the one kept.
C6_IdentitiesAreUnique ==
    pc = "returned" =>
        /\ \A i, j \in 1 .. Len(manifest.chunks) :
              manifest.chunks[i].id = manifest.chunks[j].id => i = j
        /\ manifest.chunks = FirstWins(offered, <<>>)

\* C6 witness: a manifest with fresh records was returned after a record
\* of an identity already present was offered and suppressed.
C6_Witness ==
    /\ pc = "returned"
    /\ units # {}
    /\ Len(offered) > Len(manifest.chunks)

\* The loop over the sources is running: no chunk has been written yet.
InSourceLoop == pc \notin {"start", "chunk_seq", "chunk_pool", "assemble",
                           "returned", "raised"}

Recovered == LoadExistingChunkMap(prior, disk0)
Met == Range(uploads)
Reprocessed == {h \in Met : dec[h].d = "redo"}
Skipped == {h \in Met : dec[h].d = "skip"}

\* The three parts the manifest is merged from.
ExpectedRecords ==
    UNION {Range(dec[h].fresh) : h \in Reprocessed}
        \cup UNION {Range(Recovered[h]) : h \in Skipped}
        \cup {r \in UNION {Range(Recovered[k]) : k \in Hashes \ Met} :
                RecExists(disk, r)}

IdsOf(S) == {r.id : r \in S}

\* A skipped source was neither extracted nor chunked and its PDF and
\* markdown are the files the run found; a run that skips every source
\* has called no converter, extractor or rewriter.
SkippedDidNoWork ==
    /\ \A h \in Skipped :
          /\ ~dec[h].extracted
          /\ h \notin Range(prepared) /\ h \notin units
          /\ disk.pdf[h] = disk0.pdf[h] /\ disk.md[h] = disk0.md[h]
    /\ (Reprocessed = {} /\ InSourceLoop) => work = NoWork

\* C12 as stated: in every successful run with chunking enabled the
\* manifest holds exactly the fresh records of the reprocessed sources, the
\* recovered records of the skipped sources and the prior records of
\* identities not met whose chunk file exists (one record per chunk
\* identity), and a skipped source causes no work.
C12_ManifestParts ==
    /\ chunking => SkippedDidNoWork
    /\ pc = "returned" /\ chunking =>
          /\ Range(manifest.chunks) \subseteq ExpectedRecords
          /\ IdsOf(Range(manifest.chunks)) = IdsOf(ExpectedRecords)

\* C12 amended: the same for every successful run with chunking enabled
\* that found at least one eligible source.
C12_ManifestPartsWhenSourcesFound ==
    /\ chunking => SkippedDidNoWork
    /\ pc = "returned" /\ chunking /\ uploads # <<>> =>
          /\ Range(manifest.chunks) \subseteq ExpectedRecords
          /\ IdsOf(Range(manifest.chunks)) = IdsOf(ExpectedRecords)

\* C12 witness: a manifest was returned that holds the records of a
\* source met in the run and a leftover record of an identity not met.
C12_Witness ==
    /\ pc = "returned" /\ chunking /\ uploads # <<>>
    /\ \E h \in Hashes \ Met : dec[h].kept # <<>>
    /\ \E h \in Met : dec[h].reused # <<>> \/ dec[h].fresh # <<>>

\* C13: a returned manifest has the refresh-needed flag set exactly when
\* chunking was enabled and the manifest holds a chunk; a run that found no
\* eligible file returns the empty manifest with the flag off.
C13_RefreshFlag ==
    pc = "returned" =>
        /\ manifest.refresh <=> (chunking /\ manifest.chunks # <<>>)
        /\ uploads = <<>> => manifest.chunks = <<>> /\ ~manifest.refresh

\* C13 witness: chunking is enabled, the prior manifest names a chunk whose
\* file is on disk, and a run that found no eligible file has returned.
C13_Witness ==
    /\ pc = "returned" /\ chunking /\ uploads = <<>>
    /\ Loadable(disk, prior) # <<>>

\* The run started on a tree in which the source once chunked under hash
\* g is now at the location with hash f, which holds no artifact and has
\* no record.
MovedFromTo(g, f) ==
    /\ g # f /\ chunking
    /\ disk0.src[g] = 0 /\ disk0.src[f] > 0
    /\ disk0.copy[g] > 0 /\ disk0.pdf[g] > 0 /\ disk0.md[g] > 0
    /\ Recovered[g] # <<>>
    /\ \A i \in 1 .. Len(Recovered[g]) : Recovered[g][i].id.h = g
    /\ disk0.copy[f] = 0 /\ disk0.pdf[f] = 0 /\ disk0.md[f] = 0
    /\ \A i \in 1 .. Len(prior) : prior[i].key # f /\ prior[i].id.h # f
    /\ \A c \in ChunkIds : c.h = f => disk0.chunk[c] = 0 /\ disk0.alt[c] = 0

\* C14 as stated: after a move the manifest of the next run holds chunk
\* records of the new identity only and no record of the old identity.
C14_MoveDropsOldRecords ==
    \A g, f \in Hashes :
        pc = "returned" /\ MovedFromTo(g, f) =>
            /\ manifest.chunks # <<>>
            /\ \A i \in 1 .. Len(manifest.chunks) :
                  manifest.chunks[i].key = f /\ manifest.chunks[i].id.h = f
            /\ Range(manifest.chunks) \cap Range(Recovered[g]) = {}

\* C14 amended: after a move to a location never used before, the source
\* is reprocessed under the new identity, the manifest's records of the
\* new identity are the fresh ones and none is a prior record, and the
\* records of the old identity are carried over while their chunk files
\* exist.
C14_MoveKeepsOldRecords ==
    \A g, f \in Hashes :
        pc = "returned" /\ MovedFromTo(g, f) =>
            /\ dec[f].d = "redo" /\ dec[f].reused = <<>> /\ dec[f].fresh # <<>>
            /\ {r \in Range(manifest.chunks) : r.key = f \/ r.id.h = f}
                  = Range(dec[f].fresh)
            /\ Range(dec[f].fresh) \cap Range(Recovered[g]) = {}
            /\ {r \in Range(manifest.chunks) : r.key = g}
                  = {r \in Range(Recovered[g]) : RecExists(disk, r)}

\* C14 witness: the run after a move has returned a manifest that holds a
\* fresh record of the new identity.
C14_Witness ==
    \E g, f \in Hashes :
        /\ pc = "returned" /\ MovedFromTo(g, f)
        /\ \E i \in 1 .. Len(manifest.chunks) : manifest.chunks[i].key = f

\* C22: every record a chunking unit of the run produced carries the
\* identity hash of the unit's own source in its identity and as its key,
\* names the file chunk_markdown/<identity>.md, which has been written, and
\* no two records produced in the run have the same identity.
C22_ChunkFilesByIdentity ==
    \A h \in Hashes : \A i \in 1 .. Len(dec[h].fresh) :
        /\ h \in units
        /\ dec[h].fresh[i].id.h = h
        /\ dec[h].fresh[i].key = h
        /\ dec[h].fresh[i].loc = "chunk"
        /\ disk.chunk[dec[h].fresh[i].id] > 0
        /\ disk.chunk[dec[h].fresh[i].id] >= disk.md[h]
        /\ \A g \in Hashes : \A j \in 1 .. Len(dec[g].fresh) :
              dec[g].fresh[j].id = dec[h].fresh[i].id => (g = h /\ j = i)

\* C22 witness: both sources were chunked in one run, two chunks each, and
\* none of the four chunk files existed before the run.
C22_Witness ==
    /\ pc = "returned"
    /\ \A h \in Hashes : Len(dec[h].fresh) = 2
    /\ \A c \in ChunkIds : disk0.chunk[c] = 0 /\ disk.chunk[c] > 0

\* C24 as stated: a chunking unit that ended without an error made at least
\* one record, and in every successful run each reprocessed source has a
\* fresh record in the manifest.
C24_ReprocessedHasChunk ==
    /\ \A h \in units : dec[h].failed = "no" => dec[h].fresh # <<>>
    /\ pc = "returned" =>
          \A h \in Reprocessed :
              \E i \in 1 .. Len(manifest.chunks) :
                  manifest.chunks[i] \in Range(dec[h].fresh)

\* C24 amended: the same for every successful run with chunking enabled.
C24_ReprocessedHasChunkWhenChunking ==
    /\ \A h \in units : dec[h].failed = "no" => dec[h].fresh # <<>>
    /\ pc = "returned" /\ chunking =>
          \A h \in Reprocessed :
              /\ h \in units
              /\ \E i \in 1 .. Len(manifest.chunks) :
                    manifest.chunks[i] \in Range(dec[h].fresh)

\* C24 witness: a run with chunking enabled returned after it reprocessed
\* two sources, and of an identity a prior record was recovered for, the
\* fresh record is in the manifest.
C24_Witness ==
    /\ pc = "returned" /\ chunking
    /\ Reprocessed = Hashes
    /\ \E h \in Hashes : Recovered[h] # <<>> /\ Len(dec[h].fresh) = 1

\* A run raised because a unit's chunker ended without a chunk and without
\* an error of its own.
C24_WitnessEmptyUnit ==
    /\ pc = "raised"
    /\ \E h \in Hashes : units = {h} /\ dec[h].failed = "chunk"
    /\ disk.chunk = disk0.chunk

\* The chunking phase of the run is over.
ChunkingOver == pool.workers > 0 /\ pc \in {"assemble", "returned", "raised"}

C25_WitnessSequential ==
    /\ ChunkingOver
    /\ Len(prepared) = 2 /\ pool.c = 1
    /\ \A h \in Hashes : dec[h].chunked = 1

\* The modification time of the file the recovered record r names, 0 when
\* the file is not there.
FileOf(d, r) == IF r.loc = "chunk" THEN d.chunk[r.id] ELSE d.alt[r.id]

\* The chain of source h is fresh on disk d, recs being the records
\* recovered for h: there is a record, the copy exists, PDF and markdown
\* exist and are not older than the copy and the PDF, and the file of every
\* record exists and is not older than the markdown.
ChainFresh(d, h, recs) ==
    /\ recs # <<>>
    /\ d.copy[h] > 0
    /\ d.pdf[h] > 0 /\ d.pdf[h] >= d.copy[h]
    /\ d.md[h] > 0 /\ d.md[h] >= d.pdf[h]
    /\ \A i \in 1 .. Len(recs) :
          FileOf(d, recs[i]) > 0 /\ FileOf(d, recs[i]) >= d.md[h]

C29_WitnessStaleChunk ==
    /\ chunking
    /\ \E h \in Hashes : dec[h].d = "redo" /\ dec[h].link = "chunks" /\ dec[h].purged = <<>>

\* The per-source loop is at work: between two turns, or inside
\* _prepare_source_file for the source of the current turn.
Preparing ==
    \/ pc = "loop" /\ idx <= Len(uploads)
    \/ pc \in {"cv_enter", "cv_attempt", "extract"}

\* No chunking unit has started in this run and no chunk file has been
\* written in it (a purge may have unlinked some).
NoUnitYet ==
    /\ units = {}
    /\ \A h \in Hashes : futures[h].st \in {"none", "pending"} /\ dec[h].chunked = 0
    /\ \A c \in ChunkIds : disk.chunk[c] \in {0, disk0.chunk[c]}

C31_WitnessUnitStarted ==
    /\ mode = "pipeline" /\ pc = "chunk_pool"
    /\ Len(prepared) = 2
    /\ \E h \in Hashes : futures[h].st = "running"

\* C32: in a returned manifest of a run with chunking, the records filed
\* under the identity hash of a reprocessed source are exactly the records
\* its unit produced in this run: none was reused, none was carried over
\* from the prior manifest, and a record recovered for the hash is in the
\* manifest only if the unit produced it again.
C32_OnlyFreshRecords ==
    (mode = "pipeline" /\ pc = "returned" /\ chunking) =>
        \A h \in Reprocessed :
            /\ dec[h].reused = <<>> /\ dec[h].kept = <<>>
            /\ {r \in Range(manifest.chunks) : r.key = h} = Range(dec[h].fresh)
            /\ \A r \in Range(Recovered[h]) \ Range(dec[h].fresh) :
                  r \notin Range(manifest.chunks)

\* C32 witness: two records were recovered for a source whose chain was
\* stale without any purge, its unit produced one chunk, the file of the
\* second old chunk is still on disk, and the manifest was returned.
C32_Witness ==
    /\ mode = "pipeline" /\ pc = "returned" /\ chunking
    /\ \E h \in Reprocessed :
          /\ dec[h].purged = <<>>
          /\ Len(Recovered[h]) = 2 /\ Recovered[h][1].id # Recovered[h][2].id
          /\ Len(dec[h].fresh) = 1
          /\ RecExists(disk, Recovered[h][2])

\* C33: when run_conversion_pipeline returns a manifest, the chunk file of
\* every record in it exists on disk; the purge of the mismatching records
\* of one identity has not unlinked the file of a record that was added
\* for a source skipped earlier in the run.
C33_ManifestFilesExist ==
    (mode = "pipeline" /\ pc = "returned") =>
        \A i \in 1 .. Len(manifest.chunks) : RecExists(disk, manifest.chunks[i])

\* The chunk files as the per-source loop left them: those of the run's
\* start less the files a purge unlinked.
ChunkFilesAfterLoop ==
    [c \in ChunkIds |->
        IF \E h \in Hashes : \E i \in 1 .. Len(dec[h].purged) :
               dec[h].purged[i].id = c /\ dec[h].purged[i].loc = "chunk"
        THEN 0 ELSE disk0.chunk[c]]

\* The reference outcome of the fan-out: the units of the documents docs
\* executed one after the other in the order of the list, each with the
\* chunker outcome out gives it; acc holds the chunk files, the records and
\* the failure messages.
RECURSIVE OneByOne(_, _, _, _)
OneByOne(docs, out, t, acc) ==
    IF docs = <<>> THEN acc
    ELSE LET h   == Head(docs)
             res == ChunkPreparedSource([NoFiles EXCEPT !.chunk = acc.files], h, out[h], t)
         IN OneByOne(Tail(docs), out, t,
                [files |-> res.disk.chunk,
                 recs  |-> IF res.ok THEN acc.recs \cup Range(res.recs) ELSE acc.recs,
                 msgs  |-> IF res.ok THEN acc.msgs
                           ELSE acc.msgs \cup {Message("chunk", h)}])

\* The fan-out has ended: every unit was executed and collected.
FanOutOver ==
    /\ mode = "pipeline" /\ chunking /\ prepared # <<>>
    /\ pc \in {"assemble", "returned"} \/ (pc = "raised" /\ units # {})

\* C34: when the fan-out has ended, on the sequential path and on the
\* pooled path under every order of execution and of completion, the
\* chunk files on disk, the records the units added to chunks and the
\* failure messages are those of executing the units one by one in the
\* order of the prepared list with the same chunker outcomes.
C34_FanOutIsDeterministic ==
    FanOutOver =>
        LET ref == OneByOne(prepared, [h \in Hashes |-> dec[h].o], now,
                            [files |-> ChunkFilesAfterLoop, recs |-> {}, msgs |-> {}])
        IN /\ disk.chunk = ref.files
           /\ Range(errors) = ref.msgs
           /\ Len(errors) = Cardinality(ref.msgs)
           /\ Range(chunks) \ UNION {Range(dec[h].reused) \cup Range(dec[h].kept)
                                        : h \in Hashes}
                 = ref.recs \ UNION {Range(dec[h].reused) : h \in Hashes}
           /\ ref.recs \subseteq Range(chunks)

\* C34 witness: two units ran in a pool, the unit of the second document
\* was completed and collected first, and both succeeded.
C34_Witness ==
    /\ FanOutOver /\ pc = "assemble" /\ errors = <<>>
    /\ Len(prepared) = 2 /\ pool.workers = 2
    /\ \A h \in Hashes : futures[h].st = "collected" /\ dec[h].fresh # <<>>
    /\ chunks[Len(chunks)] \in Range(dec[prepared[1]].fresh)

\* Two units ran in a pool and both failed, the second document's first.
C34_WitnessBothFailed ==
    /\ FanOutOver /\ pc = "assemble"
    /\ pool.workers = 2
    /\ errors = <<Message("chunk", prepared[2]), Message("chunk", prepared[1])>>

\* Two units ran one after the other and one of them failed.
C34_WitnessSequential ==
    /\ FanOutOver /\ pc = "assemble"
    /\ Len(prepared) = 2 /\ pool.workers = 1
    /\ Len(errors) = 1 /\ chunks # <<>>

\* =================================================== claims, SpecText
\* The block that stands for the i-th tag, and by how much the text has
\* grown after the first n tags were replaced.
Block(i) ==
    <<CAPTION_START_MARKER, " ">> \o StripText(rw.captions[i])
        \o <<" ", CAPTION_END_MARKER>>

SpanLen(i) == rw.tags[i].end - rw.tags[i].start

RECURSIVE Growth(_)
Growth(n) == IF n = 0 THEN 0 ELSE Growth(n - 1) + Len(Block(n)) - SpanLen(n)

InSpan(q) == \E i \in 1 .. Len(rw.tags) : rw.tags[i].start <= q /\ q < rw.tags[i].end

\* The growth of the text before position q of the raw text.
Shift(q) == Growth(Cardinality({i \in 1 .. Len(rw.tags) : rw.tags[i].end <= q}))

CountOf(t, c) == Cardinality({p \in 1 .. Len(t) : t[p] = c})

\* C16: in the text before normalisation, the span of every found tag is
\* replaced by the start marker, a space, the caption, a space and the
\* end marker; every character outside the spans is kept, in order; there
\* are as many marker pairs as tags.
C16_SpansReplaced ==
    pc = "tx_done" =>
        LET raw == rw.raw
            P   == rw.processed
            n   == Len(rw.tags)
        IN /\ \A i \in 1 .. n :
                 /\ 0 <= rw.tags[i].start /\ rw.tags[i].start < rw.tags[i].end
                 /\ rw.tags[i].end <= Len(raw)
                 /\ i < n => rw.tags[i].end <= rw.tags[i + 1].start
                 /\ StripText(rw.captions[i]) # <<>>
                 /\ SubSeq(P, rw.tags[i].start + Growth(i - 1) + 1,
                              rw.tags[i].start + Growth(i - 1) + Len(Block(i)))
                       = Block(i)
           /\ Len(P) = Len(raw) + Growth(n)
           /\ \A q \in 0 .. Len(raw) - 1 :
                 ~InSpan(q) => P[q + Shift(q) + 1] = raw[q + 1]
           /\ CountOf(P, CAPTION_START_MARKER) = n
           /\ CountOf(P, CAPTION_END_MARKER) = n

\* C16 witness: a text with two tags, characters between them and after
\* the second, has been rewritten.
C16_Witness ==
    /\ pc = "tx_done"
    /\ Len(rw.tags) = 2
    /\ rw.tags[1].end < rw.tags[2].start
    /\ rw.tags[2].end < Len(rw.raw)

\* C17: the written file has no line that ends in whitespace and ends with
\* exactly one newline character, whatever the input text.
C17_OneFinalNewline ==
    pc = "tx_done" =>
        LET W == rw.written
        IN /\ \A p \in 1 .. Len(W) :
                 (p = Len(W) \/ W[p + 1] = "\n") => W[p] # " "
           /\ W # <<>>
           /\ W[Len(W)] = "\n"
           /\ Len(W) > 1 => W[Len(W) - 1] # "\n"

\* The first position from i on that holds character c and is not escaped
\* by a backslash (a backslash escapes the character after it), or -1.
RECURSIVE Unescaped(_, _, _)
Unescaped(t, i, c) ==
    IF i >= Len(t) THEN -1
    ELSE IF t[i + 1] = "\\" THEN Unescaped(t, i + 2, c)
    ELSE IF t[i + 1] = c THEN i
    ELSE Unescaped(t, i + 1, c)

\* The unescaped parentheses from position i on balance the one opened
\* before i, depth being the number of parentheses open.
RECURSIVE Balances(_, _, _)
Balances(t, i, depth) ==
    IF depth = 0 THEN TRUE
    ELSE IF i >= Len(t) THEN FALSE
    ELSE IF t[i + 1] = "\\" THEN Balances(t, i + 2, depth)
    ELSE IF t[i + 1] = "(" THEN Balances(t, i + 1, depth + 1)
    ELSE IF t[i + 1] = ")" THEN Balances(t, i + 1, depth - 1)
    ELSE Balances(t, i + 1, depth)

\* The positions of the raw text where "![" stands.
Bangs == {q \in 0 .. Len(rw.raw) - 2 : rw.raw[q + 1] = "!" /\ rw.raw[q + 2] = "["}

\* The end of the malformed image syntax that starts at position q: the
\* end of the text when the alt text is not closed, the position after
\* "]" when no "(" follows, the position after "(" when it is not
\* balanced; -1 when the syntax at q is well formed.
MalformedEnd(q) ==
    LET close == Unescaped(rw.raw, q + 2, "]")
    IN IF close = -1 THEN Len(rw.raw)
       ELSE IF close + 1 >= Len(rw.raw) \/ rw.raw[close + 2] # "(" THEN close + 1
       ELSE IF ~Balances(rw.raw, close + 2, 1) THEN close + 2
       ELSE -1

Malformed == {q \in Bangs : MalformedEnd(q) # -1}

\* Position q lies within a found tag that starts before it.
Within(q) == \E i \in 1 .. Len(rw.tags) : rw.tags[i].start < q /\ q < rw.tags[i].end

\* C18 as stated: when the rewrite of a text has ended, malformed image
\* syntax in it has given no tag and the characters of the malformed
\* syntax stand unchanged in the written file.
C18_MalformedUntouched ==
    pc = "tx_done" =>
        \A q \in Malformed :
            /\ \A i \in 1 .. Len(rw.tags) : rw.tags[i].start # q
            /\ Occurs(SubSeq(rw.raw, q + 1, MalformedEnd(q)), rw.written)

\* C18 amended: when the rewrite of a text has ended, malformed image
\* syntax that does not start within a found tag has given no tag, no tag
\* overlaps it, and its characters stand unchanged and together in the
\* text before the line ends are normalised.
C18_MalformedOutsideTagsUntouched ==
    pc = "tx_done" =>
        \A q \in Malformed :
            ~Within(q) =>
                /\ \A i \in 1 .. Len(rw.tags) : rw.tags[i].start # q
                /\ \A r \in q .. MalformedEnd(q) - 1 :
                      /\ ~InSpan(r)
                      /\ Shift(r) = Shift(q)
                      /\ rw.processed[r + Shift(r) + 1] = rw.raw[r + 1]

\* C18 witness: a text with a found tag and, after it, malformed syntax of
\* which a "(" is never balanced has been rewritten.
C18_Witness ==
    /\ pc = "tx_done"
    /\ rw.tags # <<>>
    /\ \E q \in Malformed :
          /\ ~Within(q)
          /\ rw.tags[1].end <= q
          /\ MalformedEnd(q) = Unescaped(rw.raw, q + 2, "]") + 2

\* The number of backslashes that stand in a row right before position p,
\* counted no further back than position s.
BackslashRun(t, s, p) ==
    CHOOSE k \in 0 .. p - s :
        /\ \A j \in 1 .. k : t[p - j + 1] = "\\"
        /\ k = p - s \/ t[p - k] # "\\"

\* Position p, read from position s on, is skipped as the character after an
\* escaping backslash, or is such a backslash itself.
PassedOver(t, s, p) == BackslashRun(t, s, p) % 2 = 1 \/ t[p + 1] = "\\"

\* The parentheses open at position p when one is open at position s:
\* one, and the unescaped "(" less the unescaped ")" from s up to p.
DepthAt(t, s, p) ==
    1 + Cardinality({r \in s .. p - 1 : t[r + 1] = "(" /\ ~PassedOver(t, s, r)})
      - Cardinality({r \in s .. p - 1 : t[r + 1] = ")" /\ ~PassedOver(t, s, r)})

\* C28: every tag found starts at a "![" ; its alt text is the characters
\* up to the first "]" after it that no backslash escapes; a "(" follows
\* that "]" at once; and the tag ends with the first unescaped ")" after it
\* at which no other parenthesis opened since is still open.
C28_TagsAreWellFormed ==
    pc = "tx_done" =>
        \A i \in 1 .. Len(rw.tags) :
            LET t     == rw.raw
                q     == rw.tags[i].start
                close == q + 2 + Len(rw.tags[i].alt_text)
                last  == rw.tags[i].end - 1
            IN /\ q \in Bangs
               /\ close + 1 < Len(t)
               /\ rw.tags[i].alt_text = SubSeq(t, q + 3, close)
               /\ t[close + 1] = "]" /\ ~PassedOver(t, q + 2, close)
               /\ \A p \in q + 2 .. close - 1 : t[p + 1] = "]" => PassedOver(t, q + 2, p)
               /\ t[close + 2] = "("
               /\ close + 2 <= last /\ last < Len(t)
               /\ t[last + 1] = ")" /\ ~PassedOver(t, close + 2, last)
               /\ DepthAt(t, close + 2, last) = 1
               /\ \A p \in close + 2 .. last - 1 :
                     (t[p + 1] = ")" /\ ~PassedOver(t, close + 2, p))
                         => DepthAt(t, close + 2, p) > 1

\* C28 witness: a tag was found whose alt text holds an escaped "]" before
\* the "]" that ends it.
C28_Witness ==
    /\ pc = "tx_done"
    /\ \E i \in 1 .. Len(rw.tags) :
          /\ rw.tags[i].alt_text = <<"\\", "]">>
          /\ rw.raw[rw.tags[i].start + 5] = "]"

\* A tag was found whose destination holds a pair of parentheses.
C28_WitnessNested ==
    /\ pc = "tx_done"
    /\ \E i \in 1 .. Len(rw.tags) :
          SubSeq(rw.raw, rw.tags[i].end - 3, rw.tags[i].end) = <<"(", "(", ")", ")">>

\* The "![" at position q opens a well-formed image tag: an unescaped "]"
\* stands after it, a "(" follows the first such "]" at once, and an
\* unescaped ")" after that closes it.
WellFormedAt(q) ==
    \E close \in q + 2 .. Len(rw.raw) - 3 :
        /\ rw.raw[close + 1] = "]" /\ ~PassedOver(rw.raw, q + 2, close)
        /\ \A p \in q + 2 .. close - 1 :
              rw.raw[p + 1] = "]" => PassedOver(rw.raw, q + 2, p)
        /\ rw.raw[close + 2] = "("
        /\ \E last \in close + 2 .. Len(rw.raw) - 1 :
              /\ rw.raw[last + 1] = ")" /\ ~PassedOver(rw.raw, close + 2, last)
              /\ DepthAt(rw.raw, close + 2, last) = 1

\* C30: when the rewrite of a text has ended, every well-formed image tag
\* that begins after a malformed "![" and not within a found tag has been
\* found, and its caption block stands in its place.
C30_ScanResumes ==
    pc = "tx_done" =>
        \A q \in Bangs : \A s \in Bangs :
            (~WellFormedAt(q) /\ q < s /\ WellFormedAt(s) /\ ~Within(s)) =>
                \E i \in 1 .. Len(rw.tags) :
                    /\ rw.tags[i].start = s
                    /\ SubSeq(rw.processed, s + Shift(s) + 1, s + Shift(s) + Len(Block(i)))
                          = Block(i)

\* C30 witness: a text in which a "![" with unbalanced parentheses is
\* followed, further on, by a found tag has been rewritten.
C30_Witness ==
    /\ pc = "tx_done"
    /\ \E q \in Bangs : \E i \in 1 .. Len(rw.tags) :
          /\ ~WellFormedAt(q)
          /\ Unescaped(rw.raw, q + 2, "]") # -1
          /\ rw.raw[Unescaped(rw.raw, q + 2, "]") + 2] = "("
          /\ q < rw.tags[i].start
          /\ ~Within(rw.tags[i].start)

\* The same after a "![" whose "]" is not followed by "(".
C30_WitnessNoParen ==
    /\ pc = "tx_done"
    /\ \E q \in Bangs : \E i \in 1 .. Len(rw.tags) :
          /\ ~WellFormedAt(q)
          /\ Unescaped(rw.raw, q + 2, "]") # -1
          /\ rw.raw[Unescaped(rw.raw, q + 2, "]") + 2] # "("
          /\ q < rw.tags[i].start

\* The while loop of _find_image_tags run for at most fuel turns: whether
\* it has ended by then, every turn leaving idx beyond where it was and
\* not beyond the end of the text, and the spans it appended.
RECURSIVE ScanBounded(_, _, _, _)
ScanBounded(text, from, fuel, spans) ==
    IF from >= Len(text) THEN [ended |-> TRUE, spans |-> spans]
    ELSE IF fuel = 0 THEN [ended |-> FALSE, spans |-> spans]
    ELSE LET t == Turn(text, from)
         IN IF t.idx = -1 THEN [ended |-> TRUE, spans |-> spans]
            ELSE IF t.idx <= from \/ t.idx > Len(text)
            THEN [ended |-> FALSE, spans |-> spans]
            ELSE ScanBounded(text, t.idx, fuel - 1, spans \o t.found)

\* C35: the scan of a text ends within as many turns of its loop as the
\* text has characters, every turn that does not end it leaving idx
\* beyond where it was; the spans the turns appended are those of the tags
\* returned, and the tags lie within the text, each with start < end, in
\* increasing order without overlap.
C35_ScanEndsInOrder ==
    (mode = "text" /\ pc = "tx_done") =>
        \E scan \in {ScanBounded(rw.raw, 0, Len(rw.raw), <<>>)} :
           /\ scan.ended
           /\ scan.spans = [i \in 1 .. Len(rw.tags) |->
                               [start |-> rw.tags[i].start, end |-> rw.tags[i].end]]
           /\ \A i \in 1 .. Len(rw.tags) :
                 /\ 0 <= rw.tags[i].start /\ rw.tags[i].start < rw.tags[i].end
                 /\ rw.tags[i].end <= Len(rw.raw)
                 /\ \A j \in i + 1 .. Len(rw.tags) :
                       rw.tags[i].end <= rw.tags[j].start

\* C35 witness: a text that holds a tag and ends in a backslash after an
\* open "![" has been scanned.
C35_Witness ==
    /\ mode = "text" /\ pc = "tx_done"
    /\ Len(rw.raw) >= 3 /\ Len(rw.tags) = 1
    /\ SubSeq(rw.raw, Len(rw.raw) - 2, Len(rw.raw)) = <<"!", "[", "\\">>

\* A text that ends in an open "![" has been scanned.
C35_WitnessOpenBang ==
    /\ mode = "text" /\ pc = "tx_done"
    /\ Len(rw.raw) >= 2
    /\ SubSeq(rw.raw, Len(rw.raw) - 1, Len(rw.raw)) = <<"!", "[">>

\* A text with two tags and a malformed span between them has been scanned.
C35_WitnessTwoTags ==
    /\ mode = "text" /\ pc = "tx_done"
    /\ Len(rw.tags) = 2
    /\ rw.tags[1].end < rw.tags[2].start
    /\ \E q \in Bangs : rw.tags[1].end <= q /\ q < rw.tags[2].start

\* ================================================ claims, SpecConvert
\* The attempts the specification grants: one for an extension that is not
\* retry-eligible, else the configured number, at least 1, and 3 when the
\* option is absent or no integer.
GrantedAttempts ==
    IF cv.ext \notin RETRY_ELIGIBLE_EXTENSIONS THEN 1
    ELSE IF options.t \in {"none", "bad"} THEN 3
    ELSE IF options.v < 1 THEN 1 ELSE options.v

\* The retry loop was entered: a non-PDF source without a PDF artifact.
InRetryLoop == pc \in {"cv_attempt", "cv_done", "cv_raised"} /\ cv.attempt > 0

\* C9: the converter is invoked at most N times, exactly N times when the
\* call raises, and a successful attempt is the last one made.
C9_AttemptsAreBounded ==
    InRetryLoop =>
        /\ cv.calls <= GrantedAttempts
        /\ pc = "cv_raised" => cv.calls = GrantedAttempts
        /\ pc = "cv_done" => cv.calls = cv.attempt
        /\ pc = "cv_attempt" => cv.calls = cv.attempt - 1

\* C9 witness: an option int() rejects, a retry-eligible extension, three
\* failed attempts and the raise.
C9_Witness ==
    /\ pc = "cv_raised"
    /\ options.t = "bad"
    /\ cv.ext \in RETRY_ELIGIBLE_EXTENSIONS
    /\ cv.calls = 3

\* C10: after a failed attempt there is no file at the PDF artifact path,
\* so none is left when the attempts are exhausted; the error raised then
\* carries the attempt count and the message of the last attempt ("unknown
\* error" standing in for an empty message).
C10_FailedAttemptsLeaveNoPdf ==
    (InRetryLoop /\ pc # "cv_done" /\ cv.calls > 0) =>
        /\ disk.pdf[cv.h] = 0
        /\ pc = "cv_raised" =>
              /\ cv.error.attempts = cv.calls
              /\ cv.error.text = IF cv.last = "" THEN "unknown error" ELSE cv.last

\* C10 witness: two attempts failed, the last with message e2, and the
\* call raised.
C10_Witness ==
    /\ pc = "cv_raised"
    /\ cv.calls = 2
    /\ cv.last = "e2"
    /\ cv.error = [attempts |-> 2, text |-> "e2"]

\* ================================================ claims, SpecRewrite
\* C7 (as stated): in cached mode, the cache never cleared, no two caption
\* requests of the history carry the same image bytes.
C7_BytesSentOnce ==
    (mode = "rewrite" /\ ~rw.disable_cache /\ ~rw.clear_cache) =>
        \A i, j \in 1 .. Len(sent) : sent[i].content = sent[j].content => i = j

\* Two entries have the same target: the same resolved file, or, both
\* unresolved, the same raw destination.
SameTarget(e1, e2) ==
    IF e1.resolved # None \/ e2.resolved # None
    THEN e1.resolved = e2.resolved
    ELSE e1.raw_path = e2.raw_path

\* C8: after a pass, tags with the same target carry the same asset
\* identity and got the same replacement, tags with different targets carry
\* different identities, every identity belongs to exactly one asset, and
\* no file was put to the captioning service twice in the pass.
C8_OneAssetPerTarget ==
    (mode = "rewrite" /\ pc = "rw_done") =>
        /\ \A i, j \in 1 .. Len(rw.entries) :
              /\ SameTarget(rw.entries[i], rw.entries[j]) <=> rw.ids[i] = rw.ids[j]
              /\ SameTarget(rw.entries[i], rw.entries[j]) => rw.out[i] = rw.out[j]
        /\ \A i \in 1 .. Len(rw.entries) :
              Cardinality({k \in 1 .. Len(rw.assets) : rw.assets[k].id = rw.ids[i]}) = 1
        /\ \A i \in 1 .. Len(rw.entries), k \in 1 .. Len(rw.assets) :
              rw.assets[k].id = rw.ids[i] => rw.out[i] = Strip(rw.assets[k].caption)
        /\ \A i, j \in 1 .. Len(sent) :
              (sent[i].pass = rw.pass /\ sent[j].pass = rw.pass
                  /\ sent[i].path = sent[j].path) => i = j

\* C8 witness: two tags with different raw destinations resolve to one
\* file, the service was asked about it and both sites carry its answer.
C8_Witness ==
    /\ mode = "rewrite" /\ pc = "rw_done"
    /\ Len(rw.entries) = 2
    /\ rw.entries[1].raw_path # rw.entries[2].raw_path
    /\ rw.entries[1].resolved = "/m/a.png"
    /\ rw.entries[2].resolved = "/m/a.png"
    /\ \E i \in 1 .. Len(sent) : sent[i].pass = rw.pass /\ sent[i].path = "/m/a.png"
    /\ rw.out = <<"c1", "c1">>

\* The candidate images of the pass: the targets whose resolved file exists.
Candidates == {k \in 1 .. Len(rw.targets) :
                 rw.targets[k].resolved # None /\ img[rw.targets[k].resolved] > 0}

\* The number of requests put to the service for file p in the current pass.
RequestsFor(p) ==
    Cardinality({i \in 1 .. Len(sent) : sent[i].pass = rw.pass /\ sent[i].path = p})

\* The caption the service's answer gives file p: its stripped text, or no
\* entry when the file was not asked about, left out of the answer or
\* answered with a blank text.
Answered(p) == IF p \in DOMAIN rw.answered THEN rw.answered[p] ELSE None

\* The caption of target k was not taken from a cache entry: it has none,
\* or it is the stripped text of the service's answer in this pass.
FromAnswer(k) ==
    \/ rw.captions[k] \in {None, ""}
    \/ rw.captions[k] = Answered(rw.targets[k].resolved)

C20_CacheWrittenOnceIfChanged ==
    (mode = "rewrite" /\ pc = "rw_done" /\ rw.tags # <<>> /\ ~rw.disable_cache) =>
        /\ rw.writes <= 1
        /\ rw.writes = 1 =>
              \E k \in Candidates :
                  /\ RequestsFor(rw.targets[k].resolved) = 1
                  /\ Answered(rw.targets[k].resolved) # None
                  /\ LoadCaptionCache(rw.seen)[CacheKey(img[rw.targets[k].resolved])]
                        # Answered(rw.targets[k].resolved)
        /\ cache # rw.seen => rw.writes = 1
        /\ (\A k \in Candidates : RequestsFor(rw.targets[k].resolved) = 0) =>
              rw.writes = 0
        /\ \A key \in CacheKeys : cache.map[key] = "" \/ Strip(cache.map[key]) # ""

\* C20 witness: a cached pass asked the service about two images of
\* different bytes, got no caption for one and a caption for the other, and
\* saved the cache once, the caption in it and no entry for the other.
C20_Witness ==
    /\ mode = "rewrite" /\ pc = "rw_done" /\ ~rw.disable_cache
    /\ rw.writes = 1
    /\ Cardinality({i \in 1 .. Len(sent) : sent[i].pass = rw.pass}) = 2
    /\ \E p, q \in DOMAIN rw.answered :
          /\ rw.answered[p] = None /\ rw.answered[q] = "c1"
          /\ img[p] # img[q]
          /\ cache.exists
          /\ cache.map[CacheKey(img[q])] = "c1"
          /\ cache.map[CacheKey(img[p])] = ""

\* C20 witness of the other case: a cached pass whose candidates were all
\* cache hits put no request and left the cache file as it found it.
C20_WitnessAllHits ==
    /\ mode = "rewrite" /\ pc = "rw_done" /\ ~rw.disable_cache /\ rw.api_key
    /\ Candidates # {} /\ rw.consulted /\ rw.seen.exists
    /\ \A k \in Candidates : rw.captions[k] \notin {None, ""}
    /\ \A k \in Candidates : RequestsFor(rw.targets[k].resolved) = 0
    /\ rw.writes = 0 /\ cache = rw.before

\* The accumulated alt texts of target k that are not blank, by position.
NamedAlts(k) == {i \in 1 .. Len(rw.targets[k].alts) : Strip(rw.targets[k].alts[i]) # ""}

\* The first non-blank accumulated alt text of target k.
FirstNamedAlt(k) ==
    rw.targets[k].alts[CHOOSE i \in NamedAlts(k) : \A j \in NamedAlts(k) : i <= j]

FallbackOf(k) ==
    IF NamedAlts(k) # {} THEN FirstNamedAlt(k)
    ELSE IF rw.targets[k].resolved # None THEN Stem(rw.targets[k].resolved)
    ELSE IF rw.targets[k].raw_path # "" THEN Stem(rw.targets[k].raw_path)
    ELSE Placeholder

\* The pass called _save_caption_cache and the file is as it was: the write
\* failed.
WriteFailed == rw.writes = 1 /\ cache = rw.seen

\* C27: every pass over a document with image tags ends with a non-blank
\* replacement for every tag and a non-blank caption for every asset, and
\* an asset the lookup has no caption for carries its fallback.  An asset
\* whose destination did not resolve is not requested and carries its
\* fallback; a pass without an API key puts no request; a pass that found
\* the cache file unreadable serves no caption from it; a pass whose cache
\* write failed still gives every asset the caption the service answered.
C27_SoftFailuresFallBack ==
    (mode = "rewrite" /\ pc = "rw_done" /\ rw.tags # <<>>) =>
        /\ Len(rw.out) = Len(rw.tags)
        /\ \A i \in 1 .. Len(rw.out) : Strip(rw.out[i]) # ""
        /\ Len(rw.assets) = Len(rw.targets)
        /\ \A k \in 1 .. Len(rw.targets) :
              /\ Strip(rw.assets[k].caption) # ""
              /\ rw.captions[k] \in {None, ""} => rw.assets[k].caption = FallbackOf(k)
              /\ rw.targets[k].resolved = None =>
                    /\ rw.captions[k] = None
                    /\ rw.assets[k].caption = FallbackOf(k)
        /\ ~rw.api_key => \A i \in 1 .. Len(sent) : sent[i].pass # rw.pass
        /\ (rw.consulted /\ rw.seen.corrupt) => \A k \in Candidates : FromAnswer(k)
        /\ WriteFailed =>
              \A k \in Candidates :
                  Answered(rw.targets[k].resolved) # None =>
                      rw.assets[k].caption = Answered(rw.targets[k].resolved)

\* C27 witness: a pass over two tags, one of a destination that does not
\* resolve and one of an image, found the cache file unreadable, asked the
\* service, failed to write the cache, and ended with the fallback for the
\* first and the answer for the second.
C27_Witness ==
    /\ mode = "rewrite" /\ pc = "rw_done"
    /\ Len(rw.targets) = 2
    /\ \E k \in 1 .. 2 : rw.targets[k].resolved = None /\ rw.assets[k].caption = FallbackOf(k)
    /\ \E k \in Candidates :
          /\ img[rw.targets[k].resolved] = 1
          /\ rw.assets[k].caption = "c1"
    /\ rw.before.corrupt /\ rw.consulted /\ rw.seen.corrupt
    /\ WriteFailed

\* A pass without an API key that found the cache file unreadable: the
\* image carries its fallback.
C27_WitnessNoKey ==
    /\ mode = "rewrite" /\ pc = "rw_done" /\ ~rw.api_key
    /\ rw.consulted /\ rw.seen.corrupt
    /\ \E k \in Candidates :
          /\ img[rw.targets[k].resolved] = 1
          /\ rw.assets[k].caption = FallbackOf(k)

\* =================================================== claims, SpecMeta

\* C23: every chunk record, built from the chunker's output or recovered from
\* a line of the prior manifest, has metadata that holds a source_rel and a
\* source_hash.  In a fresh record each of the two is the chunker's own value
\* when the chunker supplied the key, and otherwise the unit's root-relative
\* path, respectively the unit's identity hash.  In a recovered record the
\* source_hash is the hash the record is filed under.
C23_MetadataDefaults ==
    /\ pc \in {"mt_loaded", "mt_chunked"} =>
          \A i \in 1 .. Len(rw.recs) :
              /\ rw.recs[i].metadata.source_rel \notin {Absent, ""}
              /\ rw.recs[i].metadata.source_hash \notin {Absent, ""}
    /\ pc = "mt_chunked" =>
          /\ Len(rw.recs) = Len(rw.yielded)
          /\ \A i \in 1 .. Len(rw.recs) :
                /\ rw.recs[i].metadata.source_rel =
                      IF rw.yielded[i].source_rel # Absent THEN rw.yielded[i].source_rel
                      ELSE rw.prepared.source_rel
                /\ rw.recs[i].metadata.source_hash =
                      IF rw.yielded[i].source_hash # Absent THEN rw.yielded[i].source_hash
                      ELSE rw.prepared.source_hash
    /\ pc = "mt_loaded" =>
          \A i \in 1 .. Len(rw.recs) :
              /\ rw.recs[i].metadata.source_hash = rw.recs[i].key
              /\ rw.line.source_rel # "" => rw.recs[i].metadata.source_rel = rw.line.source_rel

\* Two fresh records of a nested source: the chunker named the path of the
\* first and nothing of the second.
C23_Witness ==
    /\ pc = "mt_chunked"
    /\ rw.prepared.source_rel = "sub/a.pdf"
    /\ Len(rw.recs) = 2
    /\ rw.yielded[1] = [source_rel |-> "x.md", source_hash |-> Absent]
    /\ rw.yielded[2] = [source_rel |-> Absent, source_hash |-> Absent]
    /\ rw.recs[1].metadata = [source_rel |-> "x.md", source_hash |-> "h2"]
    /\ rw.recs[2].metadata = [source_rel |-> "sub/a.pdf", source_hash |-> "h2"]

\* A recovered record whose line named neither path nor hash of its own is
\* never made; one that named only the path is filed under the path's hash.
C23_WitnessRecovered ==
    /\ pc = "mt_loaded"
    /\ rw.line.source_hash = ""
    /\ rw.line.source_rel = "sub/a.pdf"
    /\ Len(rw.recs) = 1
    /\ rw.recs[1].metadata = [source_rel |-> "sub/a.pdf", source_hash |-> "h2"]

\* =============================================== claims, SpecDiscover

\* The eligible files of a tree: the regular files without a hidden
\* segment whose extension is supported or PDF in any case of letters,
\* that is A.PDF, b.docx, sub/A.PDF and sub/b.docx where they are files.
EligiblePaths ==
    {q \in {<<2>>, <<3>>, <<5, 2>>, <<5, 3>>} : rw.tree[q] > 0}

\* C26: discovery returns the eligible files in ascending order of path,
\* without those that resolve to the file of an eligible path earlier in the
\* order: no two returned paths resolve to one file.
C26_DiscoveryIsSortedAndUnique ==
    pc = "ds_done" =>
        /\ \A i, j \in 1 .. Len(rw.uploads) :
              i < j => PathLess(rw.uploads[i], rw.uploads[j])
        /\ \A i, j \in 1 .. Len(rw.uploads) :
              rw.tree[rw.uploads[i]] = rw.tree[rw.uploads[j]] => i = j
        /\ Range(rw.uploads) =
              {q \in EligiblePaths :
                  ~ \E e \in EligiblePaths : PathLess(e, q) /\ rw.tree[e] = rw.tree[q]}

\* C26 witness: the tree holds a file below a hidden directory, a file of an
\* unsupported extension, and three eligible paths of which the first and
\* the last lead to one file; two paths are returned.
C26_Witness ==
    /\ pc = "ds_done"
    /\ rw.tree[<<1, 2>>] > 0
    /\ rw.tree[<<4>>] > 0
    /\ rw.tree[<<2>>] = 1 /\ rw.tree[<<3>>] = 2 /\ rw.tree[<<5, 2>>] = 1
    /\ rw.tree[<<5, 3>>] = 0
    /\ rw.uploads = << <<2>>, <<3>> >>

\* ================================================ claims, SpecCaption
\* C36: when the tags of a document have been captioned, the final caption
\* of every bucket and the text between the two caption markers of every
\* site hold a character that is no whitespace.
C36_CaptionsNeverBlank ==
    (mode = "caption" /\ pc = "cp_done") =>
        /\ \A k \in 1 .. Len(rw.captions) : StripText(rw.captions[k]) # <<>>
        /\ \A i \in 1 .. Len(rw.sites) :
              /\ rw.sites[i][1] = CAPTION_START_MARKER
              /\ rw.sites[i][Len(rw.sites[i])] = CAPTION_END_MARKER
              /\ StripText(SubSeq(rw.sites[i], 2, Len(rw.sites[i]) - 1)) # <<>>

\* C36 witness: a tag without alt text whose destination is a blank was
\* captioned: the fallback of its bucket is the blank stem of the
\* destination, and the placeholder stands for it.
C36_Witness ==
    /\ mode = "caption" /\ pc = "cp_done"
    /\ \E k \in 1 .. Len(rw.buckets) :
          /\ FallbackCaptionText(rw.buckets[k]) = <<" ">>
          /\ rw.captions[k] = PlaceholderText

\* A tag without alt text whose destination is a bare "/" was captioned:
\* the destination has no stem and stands for itself.
C36_WitnessNoStem ==
    /\ mode = "caption" /\ pc = "cp_done"
    /\ \E k \in 1 .. Len(rw.buckets) :
          /\ rw.buckets[k].alts = <<<<>>>>
          /\ rw.buckets[k].raw_path = <<"/">>
          /\ rw.captions[k] = <<"/">>

\* =================================================== claims, SpecRace
\* C37: of two overlapping passes over one cache file, whenever no pass is
\* inside its write the file is as the passes found it or it is the
\* complete dumped mapping of a pass that has written; when both have
\* ended it is the mapping of the pass that wrote last; and a pass that
\* has ended has a caption for its asset.
C37_LastWriterWins ==
    mode = "race" =>
        /\ (\A p \in Passes : rw.pass[p].at # "opened") =>
              \/ cache = rw.file0
              \/ \E p \in rw.wrote : cache.text = Dumps(rw.pass[p].mem)
        /\ ((\A p \in Passes : rw.pass[p].at = "done") /\ rw.last # 0) =>
              cache.text = Dumps(rw.pass[rw.last].mem)
        /\ \A p \in Passes :
              rw.pass[p].at = "done" => rw.pass[p].caption \notin {None, ""}

\* Both passes have ended and wrote, each has returned its caption, and
\* the entry the pass that wrote first added is not in the file.
C37_LostUpdate ==
    /\ mode = "race"
    /\ \A p \in Passes : rw.pass[p].at = "done" /\ rw.pass[p].caption # None
    /\ rw.wrote = Passes
    /\ cache.text = Dumps(rw.pass[rw.last].mem)
    /\ \E p \in Passes \ {rw.last} :
          Loads(cache.text)[CacheKey(rw.pass[p].content)] = ""

====
